---------------------------- MODULE Spec2Model ----------------------------
(***************************************************************************)
(* A model of the polymarket-bot decision pipeline: the paper tracker      *)
(* (paper_tracker.py), the bankroll manager (bankroll_manager.py), the     *)
(* EV/Kelly calculator (probability_engine.py) and the bot's scan cycle    *)
(* (bot.py).                                                               *)
(*                                                                         *)
(* Numbers.  Prices and probabilities are integers in units of             *)
(* 1/PriceScale (0.25 is 25).  Money is an integer number of cents when it *)
(* is an input, and an exact rational [num, den] when it is the result of  *)
(* a division, so that no rounding is introduced by the model itself.      *)
(***************************************************************************)
EXTENDS Integers, Sequences, FiniteSets, TLC

VARIABLES
    rows,       \* the paper_bets table, in rowid order
    clock,      \* the last reading of datetime.utcnow()
    ret,        \* what the last tracker call returned (a row id, or NoId for None)
    raised,     \* whether the last tracker call raised
    txn,        \* per process: the tracker call it is inside, between its SELECT and its write
    bankroll,       \* BankrollManager.bankroll, in cents
    open_exposure,  \* BankrollManager._open_exposure, in cents
    sizing,         \* the last size_bet call on the current risk state: its arguments and
                    \* its SizingResult
    kelly_io,       \* the last calculate_ev_and_kelly call: its arguments and what it returned
    bot_pc,         \* PolymarketBot: "off", "ready" (about to run scan_cycle, or asleep
                    \* after one), "betting" (in scan_cycle's loop over top_opps), "stopped"
    live_mode,      \* PolymarketBot.live_mode
    at_await,       \* the scan loop is suspended at an await, so the monitor task can run
    todo,           \* the opportunities of top_opps that the loop has not reached yet
    scan_count,     \* PolymarketBot._scan_count
    bets_this_cycle,\* scan_cycle's local counter
    bet_sizes,      \* history: for each row of the table, the bet_size_usd (cents) that
                    \* size_bet approved when the bot logged it (the table has no such column)
    sized_with,     \* history: the (bankroll, open exposure) pairs that the size_bet calls
                    \* of the current scan cycle have read
    est_io,   \* the last ProbabilityEngine.estimate call: its arguments and what it returned
    scan_io,   \* PolymarketScanner.scan: its phase, its min_ev and its opportunities list
    mon,   \* PositionMonitor: where its loop is, the open bets of the pass, and what the pass has done
    loop,   \* the scan loop of PolymarketBot.start and the monitor task beside it
    exec_io,   \* one approved opportunity handed to _execute_paper or _execute_live, and what became of it
    executor_calls,    \* the methods of self.executor that the bot has called
    bot_error,   \* the exception that has left start(), if any
    vol_io,   \* one call of BTCVolModel.price_above_target or analyze_market: arguments and result
    row_meta,    \* for each row of the table, the our_probability, kelly and confidence columns and the caller that logged it
    report    \* one call of get_calibration_report and what it returned

trackerVars == <<rows, clock, ret, raised>>
storeVars == <<txn>>
riskVars == <<bankroll, open_exposure>>
sizerVars == <<bankroll, open_exposure, sizing>>
kellyVars == <<kelly_io>>
botVars == <<bot_pc, live_mode, at_await, todo, scan_count, bets_this_cycle, bet_sizes,
             sized_with>>
estVars == <<est_io>>
scanVars == <<scan_io>>
monVars == <<mon>>
loopVars == <<loop>>
execVars == <<exec_io>>
callVars == <<executor_calls, bot_error>>
volVars == <<vol_io>>
ledgerVars == <<row_meta, report>>
vars == <<rows, clock, ret, raised, txn, bankroll, open_exposure, sizing, kelly_io,
          bot_pc, live_mode, at_await, todo, scan_count, bets_this_cycle, bet_sizes,
          sized_with,
          est_io,
          scan_io,
          mon,
          loop,
          exec_io,
          executor_calls, bot_error,
          vol_io,
          row_meta, report>>

---------------------------------------------------------------------------
(* Bounds of the model *)

MaxRows  == 2      \* rows the table may hold

(* Units *)
PriceScale == 100  \* a price of 1.0

Markets  == {"m1", "m2"}
Sides    == {"YES", "NO"}
Prices   == {0, 25}                \* market_price values logged (0.0 and 0.25)
Times    == {0, 1}                 \* readings of datetime.utcnow()
BetSizes == {10000, 4000}          \* bet_size values, in cents (100.0 is the default)

(* The processes that write the same paper_trades.db: the bot (bot.py, whose
   scan loop and monitor are coroutines of one thread) and a main.py run. *)
Procs == {"bot", "main"}

\* A process that is not inside a tracker call.
Idle == [pc |-> "idle"]

---------------------------------------------------------------------------
(* Exact rationals *)

Rat(n, d)   == [num |-> n, den |-> d]
RatEq(a, b) == a.num * b.den = b.num * a.den
Zero        == Rat(0, 1)

---------------------------------------------------------------------------
(* paper_tracker.py *)

NoId   == 0         \* fetchone() returned None
NoTime == -1        \* resolved_at IS NULL

\* A PaperBet as log_bet reads it.
PaperBet == [market_id : Markets, side : Sides, market_price : Prices]

\* Mutant of SelectUnresolvedId: the query tests resolved=1 instead of resolved=0.
SelectResolvedId(rs, m, s) ==
    LET hits == {i \in DOMAIN rs : rs[i].market_id = m /\ rs[i].side = s /\ rs[i].resolved}
    IN  IF hits = {} THEN 0
        ELSE rs[CHOOSE i \in hits : \A j \in hits : i <= j].id

\* SELECT id FROM paper_bets WHERE market_id=? AND side=? AND resolved=0 .fetchone()
SelectUnresolvedId(rs, m, s) ==
    LET hits == {i \in DOMAIN rs : rs[i].market_id = m /\ rs[i].side = s /\ ~rs[i].resolved}
    IN  IF hits = {} THEN NoId
        ELSE rs[CHOOSE i \in hits : \A j \in hits : i <= j].id

\* INSERT INTO paper_bets (...): id is AUTOINCREMENT, resolved defaults to 0,
\* profit_loss to 0, outcome and resolved_at to NULL.
InsertRow(rs, bet) ==
    Append(rs, [id           |-> Len(rs) + 1,
                market_id    |-> bet.market_id,
                side         |-> bet.side,
                market_price |-> bet.market_price,
                resolved     |-> FALSE,
                outcome      |-> "None",
                profit_loss  |-> Zero,
                resolved_at  |-> NoTime])

\* Mutant of SelectUnresolved: the query has no "AND resolved=0".
SelectAllOfMarket(rs, m) ==
    {i \in DOMAIN rs : rs[i].market_id = m}

\* SELECT id, side, market_price FROM paper_bets WHERE market_id=? AND resolved=0
SelectUnresolved(rs, m) ==
    {i \in DOMAIN rs : rs[i].market_id = m /\ ~rs[i].resolved}

\* won = (side == outcome)
Won(side, outcome) == side = outcome

\* 1.0 / price raises ZeroDivisionError when price is 0.0; it is evaluated only
\* for a row that won.
PnlRaises(side, outcome, price) == Won(side, outcome) /\ price = 0

\* pnl = (1.0 / price - 1.0) * bet_size if won else -bet_size
\* with price = p / PriceScale: 1/price - 1 = (PriceScale - p) / p.
Pnl(side, outcome, price, bet_size) ==
    IF Won(side, outcome)
    THEN Rat((PriceScale - price) * bet_size, price)
    ELSE Rat(0 - bet_size, 1)

\* UPDATE paper_bets SET resolved=1, outcome=?, profit_loss=?, resolved_at=? WHERE id=?
\* for every selected row.
UpdateRows(rs, ids, outcome, bet_size, t) ==
    [i \in DOMAIN rs |->
        IF i \in ids
        THEN [rs[i] EXCEPT !.resolved    = TRUE,
                           !.outcome     = outcome,
                           !.profit_loss = Pnl(rs[i].side, outcome, rs[i].market_price, bet_size),
                           !.resolved_at = t]
        ELSE rs[i]]

\* resolve_bet raises inside the loop; the connection's context manager then
\* rolls the transaction back, so no UPDATE of that call is kept.
ResolveRaises(rs, ids, outcome) ==
    \E i \in ids : PnlRaises(rs[i].side, outcome, rs[i].market_price)

\* The unresolved rows of one (market_id, side).
SameKey(r, m, s) == r.market_id = m /\ r.side = s
UnresolvedOf(rs, m, s) == {i \in DOMAIN rs : SameKey(rs[i], m, s) /\ ~rs[i].resolved}

\* PaperTracker.log_bet; ret is the row id it returns.
log_bet(bet) ==
    LET existing == SelectUnresolvedId(rows, bet.market_id, bet.side)
    IN  /\ IF existing # NoId
           THEN /\ rows' = rows
                /\ ret' = existing
           ELSE /\ Len(rows) < MaxRows
                /\ rows' = InsertRow(rows, bet)
                /\ ret' = Len(rows) + 1
        /\ raised' = FALSE
        /\ UNCHANGED <<clock, storeVars, sizerVars, kellyVars, botVars, estVars, scanVars, monVars, loopVars, execVars, callVars, volVars, ledgerVars>>

\* PaperTracker.resolve_bet; t is the reading of datetime.utcnow().  It returns
\* None, or raises.
resolve_bet(market_id, outcome, bet_size, t) ==
    LET bets == SelectUnresolved(rows, market_id)
    IN  /\ t >= clock
        /\ clock' = t
        /\ ret' = NoId
        /\ IF ResolveRaises(rows, bets, outcome)
           THEN /\ rows' = rows
                /\ raised' = TRUE
           ELSE /\ rows' = UpdateRows(rows, bets, outcome, bet_size, t)
                /\ raised' = FALSE
        /\ UNCHANGED <<storeVars, sizerVars, kellyVars, botVars, estVars, scanVars, monVars, loopVars, execVars, callVars, volVars, ledgerVars>>

\* PaperTracker.__init__ / _init_db on a fresh database
InitTracker ==
    /\ rows = <<>>
    /\ clock = 0
    /\ ret = NoId
    /\ raised = FALSE

\* The part of the state a specification does not use.
NoSizing == [called |-> FALSE]
SizerUnused == bankroll = 0 /\ open_exposure = 0 /\ sizing = NoSizing
StoreUnused == txn = [p \in Procs |-> Idle]
NoKelly     == [called |-> FALSE]
KellyUnused == kelly_io = NoKelly
NoEstimate  == [called |-> FALSE]
EstUnused   == est_io = NoEstimate
NoScan      == [phase |-> "idle"]
ScanUnused  == scan_io = NoScan
NoMonitor   == [pc |-> "off"]
MonUnused   == mon = NoMonitor
NoLoops     == [bot |-> "off"]
LoopsUnused == loop = NoLoops
NoExecution == [called |-> FALSE]
ExecUnused  == exec_io = NoExecution
NoError     == [exc |-> "none", line |-> 0]
CallsUnused == executor_calls = {} /\ bot_error = NoError
NoVolCall   == [called |-> FALSE, op |-> "none"]
VolUnused   == vol_io = NoVolCall
NoReport    == [called |-> FALSE]
LedgerUnused == row_meta = <<>> /\ report = NoReport
BotUnused ==
    /\ bot_pc = "off" /\ live_mode = FALSE /\ at_await = FALSE /\ todo = <<>>
    /\ scan_count = 0 /\ bets_this_cycle = 0 /\ bet_sizes = <<>> /\ sized_with = {}

Init ==
    /\ InitTracker
    /\ StoreUnused
    /\ SizerUnused
    /\ KellyUnused
    /\ BotUnused
    /\ EstUnused
    /\ ScanUnused
    /\ MonUnused
    /\ LoopsUnused
    /\ ExecUnused
    /\ CallsUnused
    /\ VolUnused
    /\ LedgerUnused

Next ==
    \/ \E bet \in PaperBet : log_bet(bet)
    \/ \E m \in Markets, o \in Sides, b \in BetSizes, t \in Times : resolve_bet(m, o, b, t)

Spec == Init /\ [][Next]_vars

---------------------------------------------------------------------------
(* The tracker's calls statement by statement, with two processes on one
   database file.

   sqlite3.connect() is used with the default isolation_level: the module
   opens a transaction only in front of an INSERT or UPDATE, so the SELECT of
   log_bet and of resolve_bet runs in autocommit mode and holds no lock once
   it has returned.  The write transaction (implicit BEGIN, the INSERT or the
   UPDATEs, commit) excludes other writers and is one step here.  Inside the
   bot process log_bet and resolve_bet contain no await, so its scan loop and
   its monitor never interleave within a call: the bot is one process. *)

DefaultBetSize == 10000   \* bet_size: float = 100.0, in cents

\* Inserts that processes other than p have selected for and not yet written.
PendingInserts == Cardinality({p \in Procs : txn[p].pc = "log_selected"})

\* log_bet, lines 84-90: the SELECT; a hit returns at once.
log_bet_select(p, bet) ==
    /\ txn[p] = Idle
    /\ Len(rows) + PendingInserts < MaxRows
    /\ LET existing == SelectUnresolvedId(rows, bet.market_id, bet.side)
       IN  IF existing # NoId
           THEN txn' = txn
           ELSE txn' = [txn EXCEPT ![p] = [pc |-> "log_selected", bet |-> bet]]
    /\ UNCHANGED <<trackerVars, sizerVars, kellyVars, botVars, estVars, scanVars, monVars, loopVars, execVars, callVars, volVars, ledgerVars>>

\* log_bet, lines 92-106: the INSERT and the commit.
log_bet_insert(p) ==
    /\ txn[p].pc = "log_selected"
    /\ rows' = InsertRow(rows, txn[p].bet)
    /\ txn' = [txn EXCEPT ![p] = Idle]
    /\ UNCHANGED <<clock, ret, raised, sizerVars, kellyVars, botVars, estVars, scanVars, monVars, loopVars, execVars, callVars, volVars, ledgerVars>>

\* resolve_bet, lines 111-114: the SELECT.  Only the bot's monitor resolves
\* (position_monitor.py line 93, with the default bet_size).
resolve_bet_select(market_id, outcome) ==
    /\ txn["bot"] = Idle
    /\ txn' = [txn EXCEPT !["bot"] = [pc |-> "resolve_selected", outcome |-> outcome,
                                      bets |-> SelectUnresolved(rows, market_id)]]
    /\ UNCHANGED <<trackerVars, sizerVars, kellyVars, botVars, estVars, scanVars, monVars, loopVars, execVars, callVars, volVars, ledgerVars>>

\* resolve_bet, lines 116-130: the UPDATE of every selected id and the commit,
\* or the rollback when the P&L computation raises.
resolve_bet_update(t) ==
    /\ txn["bot"].pc = "resolve_selected"
    /\ t >= clock
    /\ clock' = t
    /\ rows' = IF ResolveRaises(rows, txn["bot"].bets, txn["bot"].outcome)
               THEN rows
               ELSE UpdateRows(rows, txn["bot"].bets, txn["bot"].outcome, DefaultBetSize, t)
    /\ txn' = [txn EXCEPT !["bot"] = Idle]
    /\ UNCHANGED <<ret, raised, sizerVars, kellyVars, botVars, estVars, scanVars, monVars, loopVars, execVars, callVars, volVars, ledgerVars>>

InitStore ==
    /\ InitTracker
    /\ txn = [p \in Procs |-> Idle]
    /\ SizerUnused
    /\ KellyUnused
    /\ BotUnused
    /\ EstUnused
    /\ ScanUnused
    /\ MonUnused
    /\ LoopsUnused
    /\ ExecUnused
    /\ CallsUnused
    /\ VolUnused
    /\ LedgerUnused

NextStore ==
    \/ \E p \in Procs, bet \in PaperBet : log_bet_select(p, bet)
    \/ \E p \in Procs : log_bet_insert(p)
    \/ \E m \in Markets, o \in Sides : resolve_bet_select(m, o)
    \/ \E t \in Times : resolve_bet_update(t)

SpecStore == InitStore /\ [][NextStore]_vars

\* C4: under every interleaving of the writers, log_bet's check-then-insert and
\* resolve_bet's read-then-update take effect atomically: there are never two
\* unresolved rows with the same (market_id, side), and no resolution is lost
\* (a resolved row keeps its resolution).
C4_AtomicStore ==
    /\ [](\A m \in Markets, s \in Sides : Cardinality(UnresolvedOf(rows, m, s)) <= 1)
    /\ [][\A i \in DOMAIN rows :
            rows[i].resolved => (i \in DOMAIN rows' /\ rows'[i] = rows[i])]_vars

---------------------------------------------------------------------------
(* Claims about the tracker, checked under Spec *)

\* C1: the table never holds two unresolved rows with the same (market_id,
\* side), and a log_bet call for a (market_id, side) that already has an
\* unresolved row inserts nothing and returns the id of that row.
C1_LogBetIdempotent ==
    /\ [](\A m \in Markets, s \in Sides : Cardinality(UnresolvedOf(rows, m, s)) <= 1)
    /\ [][\A bet \in PaperBet :
            (log_bet(bet) /\ UnresolvedOf(rows, bet.market_id, bet.side) # {})
            => /\ rows' = rows
               /\ \E i \in UnresolvedOf(rows, bet.market_id, bet.side) : ret' = rows[i].id]_vars

\* C1 witness: two unresolved rows are stored and the last call returned the id
\* of the first one, so that call was a duplicate log_bet (an insert returns
\* the id of the last row).
C1_Witness ==
    /\ Len(rows) = 2
    /\ ~rows[1].resolved /\ ~rows[2].resolved
    /\ ret = rows[1].id

\* C2: a resolved row is never changed again by any later call: its resolved
\* flag, outcome, profit_loss and resolved_at stay what the first resolution
\* set.
C2_ResolvedOnce ==
    [][\A i \in DOMAIN rows :
          rows[i].resolved
          => /\ i \in DOMAIN rows'
             /\ rows'[i].resolved
             /\ rows'[i].outcome = rows[i].outcome
             /\ rows'[i].profit_loss = rows[i].profit_loss
             /\ rows'[i].resolved_at = rows[i].resolved_at]_vars

\* C2 witness: a market was resolved YES at time 0, a new row of the same market
\* was logged and the market was resolved again, as NO at time 1; the first row
\* still carries its first resolution.
C2_Witness ==
    /\ Len(rows) = 2
    /\ rows[1].market_id = rows[2].market_id
    /\ rows[1].resolved /\ rows[1].outcome = "YES" /\ rows[1].resolved_at = 0
    /\ rows[2].resolved /\ rows[2].outcome = "NO" /\ rows[2].resolved_at = 1

\* What C3 says of one resolve_bet(m, o, b) call taking the table from rs to rs2.
ResolvePost(rs, rs2, m, o, b) ==
    /\ DOMAIN rs2 = DOMAIN rs
    /\ \A i \in DOMAIN rs :
          /\ rs[i].market_id # m => rs2[i] = rs[i]
          /\ rs[i].market_id = m => rs2[i].resolved
          /\ (rs[i].market_id = m /\ ~rs[i].resolved)
             => /\ rs2[i].outcome = o
                /\ IF rs[i].side = o
                   THEN rs2[i].profit_loss.num * rs[i].market_price
                          = (PriceScale - rs[i].market_price) * b * rs2[i].profit_loss.den
                   ELSE RatEq(rs2[i].profit_loss, Rat(0 - b, 1))

\* C3: resolve_bet(market_id, outcome, bet_size) resolves every unresolved row
\* of that market whatever its side, leaves the rows of other markets unchanged,
\* and gives each row it resolved the outcome and the profit_loss
\* (1/market_price - 1) * bet_size when side = outcome, -bet_size otherwise.
C3_ResolveAll ==
    [][\A m \in Markets, o \in Sides, b \in BetSizes, t \in Times :
          resolve_bet(m, o, b, t) => ResolvePost(rows, rows', m, o, b)]_vars

---------------------------------------------------------------------------
(* bankroll_manager.py

   ev and kelly are in units of 1/PriceScale (0.04 is 4); bankroll, exposure,
   liquidity and bet sizes are in cents.  Intermediate amounts are kept
   exactly, in units of 1/MoneyUnit cent. *)

MAX_SINGLE_BET_PCT   == 5          \* 0.05
MAX_TOTAL_EXPOSURE   == 40         \* 0.40
KELLY_FRACTION       == 25         \* 0.25
MIN_EV_TO_BET        == 4          \* 0.04
MIN_KELLY_TO_BET     == 2          \* 0.02
MIN_LIQUIDITY_TO_BET == 1000000    \* $10,000
LIQUIDITY_CAP_PCT    == 2          \* market_liquidity * 0.02
MIN_BET              == 100        \* max(1.0, ...): $1
MoneyUnit            == 4000       \* 1 cent, in the unit of the exact amounts: kelly (1/100) times
                                   \* kelly_fraction (1/4) times conf_mult (1/10) of a whole
                                   \* number of cents is a whole number of units

Confidences == {"HIGH", "MEDIUM", "LOW", "OTHER"}   \* "OTHER": any other label

\* Inputs of the sizer
EVs         == {2, 4, 10}
Kellys      == {1, 2, 10, 25}
Liquidities == {500000, 1000000, 10000000}          \* $5k, $10k, $100k
Bankrolls   == {1000, 3000, 33333, 50000, 100000}   \* $10, $30, $333.33, $500, $1000
Exposures   == {0, 19950, 20000, 40000}             \* $0, $199.50, $200, $400

Min2(a, b) == IF a <= b THEN a ELSE b
Max2(a, b) == IF a >= b THEN a ELSE b

\* conf_mult = {"HIGH": 1.0, "MEDIUM": 0.6, "LOW": 0.3}.get(confidence, 0.5), in tenths
ConfMult(confidence) ==
    CASE confidence = "HIGH"   -> 10
      [] confidence = "MEDIUM" -> 6
      [] confidence = "LOW"    -> 3
      [] OTHER                 -> 5

\* remaining_capacity = self.bankroll * self.max_total_exposure - self._open_exposure
RemainingCapacity(b, e) == (b * MAX_TOTAL_EXPOSURE - e * 100) * (MoneyUnit \div 100)

\* kelly_fraction * conf_mult of one cent, kelly being in units of 1/100
FractionUnits(confidence) == (KELLY_FRACTION * ConfMult(confidence) * MoneyUnit) \div (100 * 100 * 10)

\* sized = kelly * self.bankroll * self.kelly_fraction * conf_mult
Sized(b, kelly, confidence) == kelly * b * FractionUnits(confidence)

\* max_bet = min(bankroll * max_single_bet_pct, remaining_capacity, market_liquidity * 0.02)
MaxBet(b, e, market_liquidity) ==
    Min2(b * (MAX_SINGLE_BET_PCT * (MoneyUnit \div 100)),
         Min2(RemainingCapacity(b, e),
              market_liquidity * (LIQUIDITY_CAP_PCT * (MoneyUnit \div 100))))

\* round(final_size, 2): to the nearest cent.  A value exactly half way between
\* two cents goes to either, as the binary float nearest to it decides.
Round2(x, tie_up) ==
    LET q == x \div MoneyUnit
        r == x % MoneyUnit
    IN  IF 2 * r < MoneyUnit THEN q
        ELSE IF 2 * r > MoneyUnit THEN q + 1
        ELSE IF tie_up THEN q + 1 ELSE q

\* Mutant of FinalSize: the $1 floor is missing.
FinalSize_NoFloor(b, e, kelly, confidence, market_liquidity, tie_up) ==
    Round2(Min2(Sized(b, kelly, confidence), MaxBet(b, e, market_liquidity)), tie_up)

\* final_size = max(1.0, round(min(sized, max_bet), 2))
FinalSize(b, e, kelly, confidence, market_liquidity, tie_up) ==
    Max2(MIN_BET, Round2(Min2(Sized(b, kelly, confidence), MaxBet(b, e, market_liquidity)), tie_up))

Rejected(why) ==
    [bet_size_usd |-> 0, kelly_fraction |-> 0, approved |-> FALSE, rejection_reason |-> why]

\* Mutant of size_bet: the Kelly gate is tested before the EV gate.
size_bet_KellyFirst(b, e, ev, kelly, confidence, market_liquidity, tie_up) ==
    IF kelly < MIN_KELLY_TO_BET THEN Rejected("kelly")
    ELSE IF ev < MIN_EV_TO_BET THEN Rejected("ev")
    ELSE IF market_liquidity < MIN_LIQUIDITY_TO_BET THEN Rejected("liquidity")
    ELSE IF confidence = "LOW" THEN Rejected("confidence")
    ELSE IF RemainingCapacity(b, e) <= 0 THEN Rejected("exposure")
    ELSE [bet_size_usd     |-> FinalSize(b, e, kelly, confidence, market_liquidity, tie_up),
          kelly_fraction   |-> KELLY_FRACTION * ConfMult(confidence),
          approved         |-> TRUE,
          rejection_reason |-> ""]

\* BankrollManager.size_bet, as a function of the risk state (b, e) and its
\* arguments.  kelly_fraction of the result is in units of 1/1000.
size_bet(b, e, ev, kelly, confidence, market_liquidity, tie_up) ==
    IF ev < MIN_EV_TO_BET THEN Rejected("ev")
    ELSE IF kelly < MIN_KELLY_TO_BET THEN Rejected("kelly")
    ELSE IF market_liquidity < MIN_LIQUIDITY_TO_BET THEN Rejected("liquidity")
    ELSE IF confidence = "LOW" THEN Rejected("confidence")
    ELSE IF RemainingCapacity(b, e) <= 0 THEN Rejected("exposure")
    ELSE [bet_size_usd     |-> FinalSize(b, e, kelly, confidence, market_liquidity, tie_up),
          kelly_fraction   |-> KELLY_FRACTION * ConfMult(confidence),
          approved         |-> TRUE,
          rejection_reason |-> ""]

\* BankrollManager.update_bankroll.  sizing observes the calls made on the
\* current risk state, so a change of the risk state clears it.
update_bankroll(new_balance) ==
    /\ bankroll' = new_balance
    /\ sizing' = NoSizing
    /\ UNCHANGED <<open_exposure, trackerVars, storeVars, kellyVars, botVars, estVars, scanVars, monVars, loopVars, execVars, callVars, volVars, ledgerVars>>

\* BankrollManager.update_exposure
update_exposure(deployed_usd) ==
    /\ open_exposure' = deployed_usd
    /\ sizing' = NoSizing
    /\ UNCHANGED <<bankroll, trackerVars, storeVars, kellyVars, botVars, estVars, scanVars, monVars, loopVars, execVars, callVars, volVars, ledgerVars>>

\* A call of BankrollManager.size_bet on the current risk state.
size_bet_call(ev, kelly, confidence, market_liquidity, tie_up) ==
    /\ sizing' = [called |-> TRUE, ev |-> ev, kelly |-> kelly, confidence |-> confidence,
                  market_liquidity |-> market_liquidity,
                  result |-> size_bet(bankroll, open_exposure, ev, kelly, confidence,
                                      market_liquidity, tie_up)]
    /\ UNCHANGED <<bankroll, open_exposure, trackerVars, storeVars, kellyVars, botVars, estVars, scanVars, monVars, loopVars, execVars, callVars, volVars, ledgerVars>>

\* BankrollManager.__init__(bankroll_usd)
InitSizer ==
    /\ bankroll \in Bankrolls
    /\ open_exposure = 0
    /\ sizing = NoSizing
    /\ InitTracker
    /\ StoreUnused
    /\ KellyUnused
    /\ BotUnused
    /\ EstUnused
    /\ ScanUnused
    /\ MonUnused
    /\ LoopsUnused
    /\ ExecUnused
    /\ CallsUnused
    /\ VolUnused
    /\ LedgerUnused

NextSizer ==
    \/ \E b \in Bankrolls : update_bankroll(b)
    \/ \E e \in Exposures : update_exposure(e)
    \/ \E ev \in EVs, k \in Kellys, c \in Confidences, l \in Liquidities, tie \in BOOLEAN :
          size_bet_call(ev, k, c, l, tie)

SpecSizer == InitSizer /\ [][NextSizer]_vars

---------------------------------------------------------------------------
(* Claims about size_bet, checked under SpecSizer *)

\* C6: every approved bet size is at most max_bet = min(bankroll *
\* max_single_bet_pct, remaining_capacity, market_liquidity * 0.02), so it is
\* neither larger than 5% of the bankroll nor larger than the remaining
\* exposure capacity.
C6_ApprovedAtMostMaxBet ==
    (sizing.called /\ sizing.result.approved)
    => /\ sizing.result.bet_size_usd * MoneyUnit
             <= MaxBet(bankroll, open_exposure, sizing.market_liquidity)
       /\ sizing.result.bet_size_usd * 100 <= bankroll * MAX_SINGLE_BET_PCT
       /\ sizing.result.bet_size_usd * 100 <= bankroll * MAX_TOTAL_EXPOSURE - open_exposure * 100

\* The first gate an input fails, in the order C7 gives; "" when it fails none.
FirstFailingGate(b, e, ev, kelly, confidence, market_liquidity) ==
    CASE ev < MIN_EV_TO_BET                               -> "ev"
      [] kelly < MIN_KELLY_TO_BET                         -> "kelly"
      [] market_liquidity < MIN_LIQUIDITY_TO_BET          -> "liquidity"
      [] confidence = "LOW"                               -> "confidence"
      [] b * MAX_TOTAL_EXPOSURE - e * 100 <= 0            -> "exposure"
      [] OTHER                                            -> ""

\* C7: size_bet tests its gates in the order ev, kelly, liquidity, confidence,
\* remaining capacity; an input that fails a gate is rejected with bet size 0
\* and the reason of the first gate it fails, and an input that fails none is
\* approved.
C7_GateOrder ==
    sizing.called
    => LET gate == FirstFailingGate(bankroll, open_exposure, sizing.ev, sizing.kelly,
                                    sizing.confidence, sizing.market_liquidity)
       IN  /\ sizing.result.approved <=> gate = ""
           /\ sizing.result.rejection_reason = gate
           /\ ~sizing.result.approved => sizing.result.bet_size_usd = 0

\* C7 witness: a call that passes the first three gates and fails both the
\* confidence gate and the capacity gate has been rejected for its confidence.
C7_Witness ==
    /\ sizing.called
    /\ sizing.ev >= MIN_EV_TO_BET /\ sizing.kelly >= MIN_KELLY_TO_BET
    /\ sizing.market_liquidity >= MIN_LIQUIDITY_TO_BET
    /\ sizing.confidence = "LOW" /\ bankroll * MAX_TOTAL_EXPOSURE <= open_exposure * 100
    /\ ~sizing.result.approved /\ sizing.result.rejection_reason = "confidence"

\* The multiplier of C8, in tenths: HIGH 1.0, MEDIUM 0.6, any other label 0.5.
Multiplier(confidence) ==
    IF confidence = "HIGH" THEN 10 ELSE IF confidence = "MEDIUM" THEN 6 ELSE 5

\* C8: an approved bet size is min(kelly * bankroll * kelly_fraction *
\* multiplier, max_bet) rounded to cents and raised to $1 when lower, so it is
\* never below $1; the reported Kelly fraction is kelly_fraction * multiplier;
\* and ev 0.10, kelly 0.10, HIGH, liquidity 100000, bankroll 1000, exposure 0
\* gives 25.00.
C8_ApprovedSize ==
    (sizing.called /\ sizing.result.approved)
    => LET mult   == Multiplier(sizing.confidence)
           \* kelly/100 * bankroll * kelly_fraction/100 * mult/10 cents, in units of
           \* 1/MoneyUnit cent
           sized  == (sizing.kelly * bankroll * KELLY_FRACTION * mult)
                        \div ((100 * 100 * 10) \div MoneyUnit)
           target == Min2(sized, MaxBet(bankroll, open_exposure, sizing.market_liquidity))
           bet    == sizing.result.bet_size_usd
       in_cents(r) == 2 * (r * MoneyUnit - target) <= MoneyUnit
                      /\ 2 * (target - r * MoneyUnit) <= MoneyUnit
       IN  /\ \E r \in {target \div MoneyUnit, target \div MoneyUnit + 1} :
                in_cents(r) /\ bet = Max2(MIN_BET, r)
           /\ bet >= MIN_BET
           /\ sizing.result.kelly_fraction = KELLY_FRACTION * mult
           /\ (sizing.ev = 10 /\ sizing.kelly = 10 /\ sizing.confidence = "HIGH"
               /\ sizing.market_liquidity = 10000000 /\ bankroll = 100000 /\ open_exposure = 0)
              => bet = 2500

\* C8 witness: the scenario of the claim has been sized, at 25.00.
C8_Witness ==
    /\ sizing.called /\ sizing.result.approved
    /\ sizing.ev = 10 /\ sizing.kelly = 10 /\ sizing.confidence = "HIGH"
    /\ sizing.market_liquidity = 10000000 /\ bankroll = 100000 /\ open_exposure = 0
    /\ sizing.result.bet_size_usd = 2500

---------------------------------------------------------------------------
(* probability_engine.py: calculate_ev_and_kelly

   our_prob, the prices and max_kelly_fraction are in units of 1/PriceScale;
   the Kelly fractions are exact rationals with a positive denominator. *)

Probs             == {-10, 0, 1, 30, 50, 99, 100, 120}
QuotedPrices      == {-5, 0, 1, 30, 50, 99, 100, 105}
MaxKellyFractions == {-10, 0, 10, 25, 100}      \* 25 is the default, 0.25

RatLe(a, b)   == a.num * b.den <= b.num * a.den
RatMin(a, b)  == IF RatLe(a, b) THEN a ELSE b
RatMax(a, b)  == IF RatLe(a, b) THEN b ELSE a

\* f = (prob * odds - (1 - prob)) / odds with odds = 1/price - 1, for a price
\* strictly between 0 and 1:
\*   odds = (PriceScale - price) / price
\*   f    = (prob * (PriceScale - price) - (PriceScale - prob) * price)
\*          / (PriceScale * (PriceScale - price))
KellyF(prob, price) ==
    Rat(prob * (PriceScale - price) - (PriceScale - prob) * price,
        PriceScale * (PriceScale - price))

\* Mutant of kelly: the result is capped above and not clamped at 0.
kelly_NoLowerClamp(prob, price, max_kelly_fraction) ==
    IF price <= 0 \/ price >= PriceScale
    THEN Zero
    ELSE RatMin(Rat(max_kelly_fraction, PriceScale), KellyF(prob, price))

\* def kelly(prob, price), lines 250-255
kelly(prob, price, max_kelly_fraction) ==
    IF price <= 0 \/ price >= PriceScale
    THEN Zero
    ELSE RatMax(Zero, RatMin(Rat(max_kelly_fraction, PriceScale), KellyF(prob, price)))

\* ProbabilityEngine.calculate_ev_and_kelly
calculate_ev_and_kelly(our_prob, yes_price, no_price, max_kelly_fraction) ==
    [ev_yes    |-> our_prob - yes_price,
     ev_no     |-> (PriceScale - our_prob) - no_price,
     kelly_yes |-> kelly(our_prob, yes_price, max_kelly_fraction),
     kelly_no  |-> kelly(PriceScale - our_prob, no_price, max_kelly_fraction)]

\* The call of calculate_ev_and_kelly on the arguments drawn by InitKelly.
calculate_call ==
    /\ ~kelly_io.called
    /\ kelly_io # NoKelly
    /\ kelly_io' = [called |-> TRUE, our_prob |-> kelly_io.our_prob,
                    yes_price |-> kelly_io.yes_price, no_price |-> kelly_io.no_price,
                    max_kelly_fraction |-> kelly_io.max_kelly_fraction,
                    result |-> calculate_ev_and_kelly(kelly_io.our_prob, kelly_io.yes_price,
                                                      kelly_io.no_price,
                                                      kelly_io.max_kelly_fraction)]
    /\ UNCHANGED <<trackerVars, storeVars, sizerVars, botVars, estVars, scanVars, monVars, loopVars, execVars, callVars, volVars, ledgerVars>>

InitKelly ==
    /\ \E p \in Probs, y \in QuotedPrices, n \in QuotedPrices, k \in MaxKellyFractions :
           kelly_io = [called |-> FALSE, our_prob |-> p, yes_price |-> y, no_price |-> n,
                       max_kelly_fraction |-> k]
    /\ InitTracker
    /\ StoreUnused
    /\ SizerUnused
    /\ BotUnused
    /\ EstUnused
    /\ ScanUnused
    /\ MonUnused
    /\ LoopsUnused
    /\ ExecUnused
    /\ CallsUnused
    /\ VolUnused
    /\ LedgerUnused

NextKelly == calculate_call

SpecKelly == InitKelly /\ [][NextKelly]_vars

InUnitInterval(price) == 0 < price /\ price < PriceScale

\* C10: for every our_prob, yes_price, no_price and max_kelly_fraction >= 0,
\* both Kelly fractions returned by calculate_ev_and_kelly lie in
\* [0, max_kelly_fraction], and the Kelly fraction of a side whose price is not
\* strictly between 0 and 1 is 0.
C10_KellyRange ==
    (kelly_io.called /\ kelly_io.max_kelly_fraction >= 0)
    => LET cap == Rat(kelly_io.max_kelly_fraction, PriceScale)
           ky  == kelly_io.result.kelly_yes
           kn  == kelly_io.result.kelly_no
       IN  /\ ky.den > 0 /\ kn.den > 0
           /\ ky.num >= 0 /\ ky.num * cap.den <= cap.num * ky.den
           /\ kn.num >= 0 /\ kn.num * cap.den <= cap.num * kn.den
           /\ ~InUnitInterval(kelly_io.yes_price) => ky.num = 0
           /\ ~InUnitInterval(kelly_io.no_price) => kn.num = 0

\* C10 witness: one call whose YES side has a negative full Kelly fraction
\* (our_prob below the price), returned as 0, and whose NO side has a full
\* Kelly fraction above the cap, returned as the cap.
C10_Witness ==
    /\ kelly_io.called
    /\ kelly_io.max_kelly_fraction = 25
    /\ kelly_io.our_prob = 1 /\ kelly_io.yes_price = 50 /\ kelly_io.no_price = 50
    /\ kelly_io.result.kelly_yes.num = 0
    /\ kelly_io.result.kelly_no.num * PriceScale = 25 * kelly_io.result.kelly_no.den

---------------------------------------------------------------------------
(* probability_engine.py: ProbabilityEngine.estimate and its estimators

   A question is the set of its words, drawn from Vocabulary.  The code tests
   "keyword in question_lower", a substring test, so each word of the
   vocabulary is given with the keywords of the code that occur in it:
   "whether" contains "eth", "winter" contains "win", "rate cut" contains
   "rate".  yes_price is in units of 1/PriceScale, the estimated probability in
   units of 1/EstScale and the confidence in units of 1/100. *)

EstScale == 10000

Occurs ==
    [w \in {"btc", "whether", "fed", "rate cut", "hike", "recession", "cpi", "above",
            "election", "winter", "price", "$100k", "rain"} |->
        CASE w = "btc"       -> {"btc"}
          [] w = "whether"   -> {"eth"}
          [] w = "fed"       -> {"fed"}
          [] w = "rate cut"  -> {"rate", "rate cut"}
          [] w = "hike"      -> {"hike"}
          [] w = "recession" -> {"recession"}
          [] w = "cpi"       -> {"cpi"}
          [] w = "above"     -> {"above"}
          [] w = "election"  -> {"election"}
          [] w = "winter"    -> {"win"}
          [] w = "price"     -> {"price"}
          [] w = "$100k"     -> {"$"}
          [] w = "rain"      -> {}]

Vocabulary   == DOMAIN Occurs
MaxWords     == 2
Questions    == {q \in SUBSET Vocabulary : Cardinality(q) <= MaxWords}
YesPrices    == {0, 5, 8, 50, 85, 86, 90, 92, 93, 96, 100}

\* end_date, as the number of days from now to it; NoEndDate for None.
NoEndDate    == -999
EndDates     == {NoEndDate, -2, 0, 2, 3, 4}
\* float(norm.cdf(...)) in units of 1/EstScale; CdfRaises when the import or the
\* call raises.
CdfRaises    == -1
CdfValues    == {CdfRaises, 0, 5000, 10000}

CryptoWords    == {"bitcoin", "btc", "ethereum", "eth", "crypto", "sol", "solana"}
MacroWords     == {"fed", "rate", "fomc", "cpi", "inflation", "gdp", "nfp", "payroll"}
PoliticalWords == {"election", "president", "senate", "congress", "vote", "win"}
PriceWords     == {"price", "above", "below", "reach", "$"}

\* keyword in question_lower
In(keyword, question) == \E w \in question : keyword \in Occurs[w]
\* any(w in question_lower for w in keywords)
AnyIn(keywords, question) == \E k \in keywords : In(k, question)

\* _days_to_end: None for no end date, else max(0, delta)
NoDays == -1
days_to_end(end_date) ==
    IF end_date = NoEndDate THEN NoDays ELSE Max2(0, end_date)

\* "if days_to_end": None and 0 are both false
Truthy(days) == days # NoDays /\ days # 0

ProbabilityEstimate(p, c, m) == [our_probability |-> p, confidence |-> c, method |-> m]

\* _estimate_base_rate
estimate_base_rate(yes_price, end_date) ==
    LET days == days_to_end(end_date)
    IN  IF yes_price < 8
        THEN ProbabilityEstimate(Max2(100, yes_price * 45), 65, "longshot bias correction")
        ELSE IF yes_price > 92
        THEN ProbabilityEstimate(Min2(9800, yes_price * 103), 55, "favorite bias correction")
        ELSE IF Truthy(days) /\ days <= 3 /\ yes_price > 85
        THEN ProbabilityEstimate(Min2(9700, (yes_price + 4) * 100), 60, "near-resolution arb")
        ELSE ProbabilityEstimate(yes_price * 100, 20, "no edge detected")

\* _estimate_crypto: the log-normal model when the question has a "$" target,
\* days_to_end is positive and nothing raises; else the base rate.
estimate_crypto(question, yes_price, end_date, cdf) ==
    LET days == days_to_end(end_date)
        prob == IF In("above", question) THEN EstScale - cdf ELSE cdf
    IN  IF "$100k" \in question /\ Truthy(days) /\ days > 0 /\ cdf # CdfRaises
        THEN ProbabilityEstimate(Max2(200, Min2(9800, prob)), 60, "log-normal vol model")
        ELSE estimate_base_rate(yes_price, end_date)

\* _estimate_macro
estimate_macro(question, yes_price, end_date) ==
    IF In("rate cut", question) \/ In("cut rates", question)
    THEN ProbabilityEstimate(1500, 65, "macro model")
    ELSE IF In("rate hike", question) \/ In("hike", question)
    THEN ProbabilityEstimate(500, 75, "macro model")
    ELSE IF In("recession", question)
    THEN ProbabilityEstimate(3000, 50, "macro model")
    ELSE IF In("cpi", question)
            /\ (In("above", question) \/ In("below", question) \/ In("beat", question))
    THEN ProbabilityEstimate(4500, 45, "macro model")
    ELSE estimate_base_rate(yes_price, end_date)

\* _estimate_political
estimate_political(yes_price) == ProbabilityEstimate(yes_price * 100, 30, "market trust")

\* _estimate_price_target
estimate_price_target(yes_price, end_date) == estimate_base_rate(yes_price, end_date)

Routed(route, e) == [route |-> route, estimate |-> e]

\* Mutant of estimate: the macro keywords are tested before the crypto keywords.
estimate_MacroFirst(question, yes_price, end_date, cdf) ==
    IF AnyIn(MacroWords, question)
    THEN Routed("macro", estimate_macro(question, yes_price, end_date))
    ELSE IF AnyIn(CryptoWords, question)
    THEN Routed("crypto", estimate_crypto(question, yes_price, end_date, cdf))
    ELSE IF AnyIn(PoliticalWords, question)
    THEN Routed("political", estimate_political(yes_price))
    ELSE IF AnyIn(PriceWords, question)
    THEN Routed("price_target", estimate_price_target(yes_price, end_date))
    ELSE Routed("base_rate", estimate_base_rate(yes_price, end_date))

\* ProbabilityEngine.estimate; route names the estimator it returned through.
estimate(question, yes_price, end_date, cdf) ==
    IF AnyIn(CryptoWords, question)
    THEN Routed("crypto", estimate_crypto(question, yes_price, end_date, cdf))
    ELSE IF AnyIn(MacroWords, question)
    THEN Routed("macro", estimate_macro(question, yes_price, end_date))
    ELSE IF AnyIn(PoliticalWords, question)
    THEN Routed("political", estimate_political(yes_price))
    ELSE IF AnyIn(PriceWords, question)
    THEN Routed("price_target", estimate_price_target(yes_price, end_date))
    ELSE Routed("base_rate", estimate_base_rate(yes_price, end_date))

\* The call of estimate on the arguments drawn by InitEstimate.
estimate_call ==
    /\ ~est_io.called
    /\ est_io # NoEstimate
    /\ est_io' = [est_io EXCEPT !.called = TRUE] @@
                 [result |-> estimate(est_io.question, est_io.yes_price, est_io.end_date,
                                      est_io.cdf)]
    /\ UNCHANGED <<trackerVars, storeVars, sizerVars, kellyVars, botVars, scanVars, monVars, loopVars, execVars, callVars, volVars, ledgerVars>>

InitEstimate ==
    /\ \E q \in Questions, y \in YesPrices, d \in EndDates, c \in CdfValues :
           est_io = [called |-> FALSE, question |-> q, yes_price |-> y, end_date |-> d,
                     cdf |-> c]
    /\ InitTracker
    /\ StoreUnused
    /\ SizerUnused
    /\ KellyUnused
    /\ BotUnused
    /\ ScanUnused
    /\ MonUnused
    /\ LoopsUnused
    /\ ExecUnused
    /\ CallsUnused
    /\ VolUnused
    /\ LedgerUnused

NextEstimate == estimate_call

SpecEstimate == InitEstimate /\ [][NextEstimate]_vars

\* C11: for every question, yes_price in [0, 1] and end date, the probability
\* returned by estimate lies in [0.01, 0.99].
C11_ProbabilityClamped ==
    (est_io.called /\ 0 <= est_io.yes_price /\ est_io.yes_price <= PriceScale)
    => /\ est_io.result.estimate.our_probability >= EstScale \div 100
       /\ est_io.result.estimate.our_probability <= EstScale - EstScale \div 100

\* The estimator that C12's priority order names for a question.
FirstCategory(question) ==
    IF \E k \in CryptoWords, w \in question : k \in Occurs[w] THEN "crypto"
    ELSE IF \E k \in MacroWords, w \in question : k \in Occurs[w] THEN "macro"
    ELSE IF \E k \in PoliticalWords, w \in question : k \in Occurs[w] THEN "political"
    ELSE IF \E k \in PriceWords, w \in question : k \in Occurs[w] THEN "price_target"
    ELSE "base_rate"

\* C12: estimate hands a question to the first category whose keywords it
\* matches, in the order crypto, macro, political, price target, and to the
\* base-rate estimator when it matches none, and returns what that estimator returns.
C12_RoutePriority ==
    est_io.called
    => LET q == est_io.question
           c == FirstCategory(q)
           r == est_io.result
       IN  /\ r.route = c
           /\ r.estimate =
                CASE c = "crypto" -> estimate_crypto(q, est_io.yes_price, est_io.end_date,
                                                     est_io.cdf)
                  [] c = "macro" -> estimate_macro(q, est_io.yes_price, est_io.end_date)
                  [] c = "political" -> estimate_political(est_io.yes_price)
                  [] c = "price_target" -> estimate_price_target(est_io.yes_price,
                                                                 est_io.end_date)
                  [] c = "base_rate" -> estimate_base_rate(est_io.yes_price, est_io.end_date)

\* C12 witness: a question with a crypto keyword and a macro keyword, handled
\* by the crypto estimator, and the call after it.
C12_Witness ==
    /\ est_io.called
    /\ est_io.question = {"btc", "fed"}
    /\ est_io.result.route = "crypto"

\* C13: the base-rate estimator applies the first of: yes_price < 0.08 gives
\* yes_price * 0.45 (not below 0.01) with confidence 0.65; yes_price > 0.92 gives
\* min(0.98, yes_price * 1.03) with confidence 0.55; an end date at most 3 days
\* away, one already passed included, and yes_price > 0.85 gives
\* min(0.97, yes_price + 0.04) with confidence 0.60; otherwise yes_price with
\* confidence 0.20.
C13_BaseRateCases ==
    (est_io.called /\ est_io.result.route = "base_rate")
    => LET y == est_io.yes_price
           e == est_io.result.estimate
           near == est_io.end_date # NoEndDate /\ est_io.end_date <= 3
       IN  IF y < 8
           THEN e.our_probability * 100 = Max2(EstScale, y * 45 * 100) /\ e.confidence = 65
           ELSE IF y > 92
           THEN e.our_probability = Min2(9800, y * 103) /\ e.confidence = 55
           ELSE IF near /\ y > 85
           THEN e.our_probability = Min2(9700, (y + 4) * 100) /\ e.confidence = 60
           ELSE e.our_probability = y * 100 /\ e.confidence = 20

---------------------------------------------------------------------------
(* scanner.py: PolymarketScanner.scan, over the markets that
   market_fetcher.py: get_active_markets returns.

   scan's loop is modelled one market at a time: scan_market is one
   iteration of "for market in markets" on the next market of the API's
   answer, scan_return the sort and the return.  Liquidity and volume are in
   dollars, prices in units of 1/PriceScale, probabilities and EVs in units of
   1/EstScale, Kelly fractions exact rationals. *)

MIN_EV_THRESHOLD    == 300
MIN_KELLY_THRESHOLD == Rat(1, 100)
MIN_LIQUIDITY       == 5000
MIN_VOLUME_24H      == 10000
MAX_SPREAD          == 5
MIN_CONFIDENCE      == 40
DEFAULT_MAX_KELLY   == Rat(25, 100)
FETCH_MIN_VOLUME    == 10000      \* get_active_markets(min_volume=10_000)

MaxOpps == 2      \* opportunities found by one scan

ScanQuestions   == {{}, {"election"}, {"fed", "rate cut"}}
ScanYesPrices   == {7, 86}
ScanSpreads     == {-20, 0, 5, 6}
ScanLiquidities == {4999, 5000}
ScanVolumes     == {9999, 10000}
ScanEndDates    == {NoEndDate, 2}
ScanMinEVs      == {300, 400}     \* main.py passes 0.03, bot.py 0.04

\* The markets of the API's answer, with at most one of: low liquidity, low
\* volume, resolved.  market_id is left out, scan not reading it.
ApiMarkets ==
    {m \in [question : ScanQuestions, yes_price : ScanYesPrices,
            no_price : 0..PriceScale, volume_24h : ScanVolumes,
            liquidity : ScanLiquidities, end_date : ScanEndDates, resolved : BOOLEAN] :
        /\ m.yes_price + m.no_price - PriceScale \in ScanSpreads
        /\ Cardinality({d \in {"liquidity", "volume", "resolved"} :
                          \/ d = "liquidity" /\ m.liquidity < 5000
                          \/ d = "volume" /\ m.volume_24h < 10000
                          \/ d = "resolved" /\ m.resolved}) <= 1}

\* Mutant of spread: the spread is taken to be 0.
spread_Zero(m) == 0

\* PolymarketMarket.__post_init__: spread = (yes_price + no_price) - 1.0
spread(m) == (m.yes_price + m.no_price) - PriceScale

\* get_active_markets keeps a market of the answer unless vol_24h < min_volume.
Fetched(m) == ~(m.volume_24h < FETCH_MIN_VOLUME)

\* kelly() of calculate_ev_and_kelly for a probability in units of 1/EstScale:
\* f = (prob * odds - (1 - prob)) / odds, with numerator and denominator
\* divided by their common factor PriceScale.
ScanKellyF(prob, price) ==
    Rat((prob * (PriceScale - price) - (EstScale - prob) * price) \div PriceScale,
        (EstScale * (PriceScale - price)) \div PriceScale)

scan_kelly(prob, price) ==
    IF price <= 0 \/ price >= PriceScale
    THEN Zero
    ELSE RatMax(Zero, RatMin(DEFAULT_MAX_KELLY, ScanKellyF(prob, price)))

\* calculate_ev_and_kelly(our_prob, yes_price, no_price) as scan calls it
scan_ev_and_kelly(our_prob, yes_price, no_price) ==
    [ev_yes    |-> our_prob - yes_price * (EstScale \div PriceScale),
     ev_no     |-> (EstScale - our_prob) - no_price * (EstScale \div PriceScale),
     kelly_yes |-> scan_kelly(our_prob, yes_price),
     kelly_no  |-> scan_kelly(EstScale - our_prob, no_price)]

ConfidenceLabel(confidence) ==
    IF confidence >= 65 THEN "HIGH" ELSE IF confidence >= 50 THEN "MEDIUM" ELSE "LOW"

\* One iteration of scan's loop: <<>> when the market is skipped, else the
\* MarketMispricing that is appended.
ScanOne(market, min_ev) ==
    IF market.liquidity < MIN_LIQUIDITY THEN <<>>
    ELSE IF market.volume_24h < MIN_VOLUME_24H THEN <<>>
    ELSE IF spread(market) > MAX_SPREAD THEN <<>>
    ELSE IF market.resolved THEN <<>>
    ELSE
      LET est == estimate(market.question, market.yes_price, market.end_date,
                          CdfRaises).estimate
      IN  IF est.confidence < MIN_CONFIDENCE THEN <<>>
          ELSE
            LET ek         == scan_ev_and_kelly(est.our_probability, market.yes_price,
                                                market.no_price)
                best_ev    == Max2(ek.ev_yes, ek.ev_no)
                best_kelly == IF ek.ev_yes > ek.ev_no THEN ek.kelly_yes ELSE ek.kelly_no
            IN  IF best_ev < min_ev THEN <<>>
                ELSE IF ~RatLe(MIN_KELLY_THRESHOLD, best_kelly) THEN <<>>
                ELSE << [market           |-> market,
                         our_probability  |-> est.our_probability,
                         edge             |-> est.our_probability
                                              - market.yes_price * (EstScale \div PriceScale),
                         ev_yes           |-> ek.ev_yes,
                         ev_no            |-> ek.ev_no,
                         kelly_yes        |-> ek.kelly_yes,
                         kelly_no         |-> ek.kelly_no,
                         recommended_side |-> IF ek.ev_yes > ek.ev_no THEN "YES" ELSE "NO",
                         confidence       |-> ConfidenceLabel(est.confidence)] >>

\* key=lambda x: max(x.kelly_yes, x.kelly_no)
SortKey(opp) == RatMax(opp.kelly_yes, opp.kelly_no)

RECURSIVE InsertSorted(_, _)
\* opp put into a list sorted by SortKey, largest first, after the entries
\* with an equal key (list.sort is stable).
InsertSorted(sorted, opp) ==
    IF sorted = <<>> THEN <<opp>>
    ELSE IF RatLe(SortKey(opp), SortKey(Head(sorted)))
         THEN <<Head(sorted)>> \o InsertSorted(Tail(sorted), opp)
         ELSE <<opp>> \o sorted

RECURSIVE SortByKelly(_)
\* opportunities.sort(key=..., reverse=True)
SortByKelly(opps) ==
    IF opps = <<>> THEN <<>>
    ELSE InsertSorted(SortByKelly(SubSeq(opps, 1, Len(opps) - 1)), opps[Len(opps)])

\* scan(min_ev=...) up to its loop
scan_begin(min_ev) ==
    /\ scan_io.phase \in {"idle", "returned"}
    /\ scan_io' = [phase |-> "scanning", min_ev |-> min_ev, opportunities |-> <<>>]
    /\ UNCHANGED <<trackerVars, storeVars, sizerVars, kellyVars, botVars, estVars, monVars, loopVars, execVars, callVars, volVars, ledgerVars>>

\* One iteration of the loop, on the next market that get_active_markets returned.
scan_market(market) ==
    /\ scan_io.phase = "scanning"
    /\ Fetched(market)
    /\ Len(scan_io.opportunities) + Len(ScanOne(market, scan_io.min_ev)) <= MaxOpps
    /\ scan_io' = [scan_io EXCEPT
                     !.opportunities = @ \o ScanOne(market, scan_io.min_ev)]
    /\ UNCHANGED <<trackerVars, storeVars, sizerVars, kellyVars, botVars, estVars, monVars, loopVars, execVars, callVars, volVars, ledgerVars>>

\* The sort and the return.
scan_return ==
    /\ scan_io.phase = "scanning"
    /\ scan_io' = [scan_io EXCEPT !.phase = "returned",
                                  !.opportunities = SortByKelly(@)]
    /\ UNCHANGED <<trackerVars, storeVars, sizerVars, kellyVars, botVars, estVars, monVars, loopVars, execVars, callVars, volVars, ledgerVars>>

InitScan ==
    /\ scan_io = NoScan
    /\ InitTracker
    /\ StoreUnused
    /\ SizerUnused
    /\ KellyUnused
    /\ BotUnused
    /\ EstUnused
    /\ MonUnused
    /\ LoopsUnused
    /\ ExecUnused
    /\ CallsUnused
    /\ VolUnused
    /\ LedgerUnused

NextScan ==
    \/ \E min_ev \in ScanMinEVs : scan_begin(min_ev)
    \/ \E market \in ApiMarkets : scan_market(market)
    \/ scan_return

SpecScan == InitScan /\ [][NextScan]_vars

\* The conditions of C14 on a market, for a scan with threshold min_ev.
Qualifies(m, min_ev) ==
    LET est == estimate(m.question, m.yes_price, m.end_date, CdfRaises).estimate
        ek  == scan_ev_and_kelly(est.our_probability, m.yes_price, m.no_price)
        k   == IF ek.ev_yes > ek.ev_no THEN ek.kelly_yes ELSE ek.kelly_no
    IN  /\ ~m.resolved
        /\ m.liquidity >= 5000
        /\ m.volume_24h >= 10000
        /\ m.yes_price + m.no_price - PriceScale <= 5
        /\ est.confidence >= 40
        /\ (ek.ev_yes >= min_ev \/ ek.ev_no >= min_ev)
        /\ k.num * 100 >= k.den

\* For each min_ev, the fetched markets that meet the conditions of C14.
QualifyingFetched ==
    [min_ev \in ScanMinEVs |-> {m \in ApiMarkets : Fetched(m) /\ Qualifies(m, min_ev)}]

Occurrences(opps, opp) == Cardinality({i \in DOMAIN opps : opps[i] = opp})

C15_SideMatchesEdge ==
    scan_io.phase = "returned"
    => \A i \in DOMAIN scan_io.opportunities :
          LET opp == scan_io.opportunities[i]
          IN  /\ opp.edge > 0 => opp.recommended_side = "YES"
              /\ opp.edge < 0 => opp.recommended_side = "NO"

---------------------------------------------------------------------------
(* bot.py: PolymarketBot.start, scan_cycle and _execute_paper, with the
   position monitor's task resolving markets while the scan loop is suspended
   at an await.

   One step of the scan loop runs from one await to the next, except that
   each opportunity of top_opps is its own step; the monitor only runs
   where the loop is at an await (at_await). *)

TOP_BETS_PER_SCAN == 3
MaxScans   == 2      \* scan cycles in a run
MaxBotRows == 3      \* rows of the table in a run of the bot

BotBankrolls    == {500}              \* STARTING_BANKROLL: --bankroll 5
OppKellys       == {1, 25}            \* the scanner's floor is 0.01, size_bet's is 0.02
OppEV           == 10
OppConfidence   == "HIGH"
OppLiquidity    == 10000000
OppPrice        == 25

Opportunity ==
    [market_id : Markets, recommended_side : Sides, kelly : OppKellys]

\* Lists of at most TOP_BETS_PER_SCAN opportunities on distinct markets.
TopOpps ==
    {q \in UNION {[1..n -> Opportunity] : n \in 0..TOP_BETS_PER_SCAN} :
        \A i, j \in DOMAIN q : i # j => q[i].market_id # q[j].market_id}

\* Mutant of ExposureAfterSizing: size_bet adds an approved bet to the exposure.
ExposureAfterSizing_Adds(e, result) ==
    IF result.approved THEN e + result.bet_size_usd ELSE e

\* size_bet has no assignment to _open_exposure.
ExposureAfterSizing(e, result) == e

\* Mutant of QueriesBalance: the balance is queried in paper mode too.
QueriesBalance_Always(live) == TRUE

\* "if self.live_mode:" before executor.get_balance() in start() and scan_cycle()
QueriesBalance(live) == live

\* start() up to its loop.  In live mode it raises: RuntimeError when
\* executor.is_configured() is false, else AttributeError, the executor having
\* no method get_balance.  Both leave start() and end the process.
start(configured) ==
    /\ bot_pc = "off"
    /\ IF live_mode
       THEN /\ bot_pc' = "stopped"
            /\ at_await' = FALSE
            /\ executor_calls' = executor_calls \cup {"is_configured"}
                                  \cup (IF configured /\ QueriesBalance(live_mode)
                                        THEN {"get_balance"} ELSE {})
            /\ bot_error' = IF ~configured THEN [exc |-> "RuntimeError", line |-> 105]
                             ELSE [exc |-> "AttributeError", line |-> 110]
       ELSE /\ bot_pc' = "ready"
            /\ at_await' = TRUE
            /\ UNCHANGED callVars
    /\ UNCHANGED <<live_mode, todo, scan_count, bets_this_cycle, bet_sizes, sized_with,
                   trackerVars, storeVars, sizerVars, kellyVars, estVars, scanVars, monVars, loopVars, execVars, volVars, ledgerVars>>

\* scan_cycle() up to the await of send_opportunity_alert. btc_market: some
\* opportunity is a bitcoin/btc question with an end_date, for which line 170
\* reads m.market.yes_price and raises AttributeError, which ends start().
scan_cycle_begin(opps, btc_market) ==
    /\ bot_pc = "ready"
    /\ scan_count < MaxScans
    /\ scan_count' = scan_count + 1
    /\ bets_this_cycle' = 0
    /\ sized_with' = {}
    /\ IF QueriesBalance(live_mode)
       THEN /\ bot_pc' = "stopped" /\ at_await' = FALSE /\ todo' = <<>>
            /\ executor_calls' = executor_calls \cup {"get_balance"}
            /\ bot_error' = [exc |-> "AttributeError", line |-> 148]
       ELSE IF opps # <<>> /\ btc_market
            THEN /\ bot_pc' = "stopped" /\ at_await' = FALSE /\ todo' = <<>>
                 /\ bot_error' = [exc |-> "AttributeError", line |-> 170]
                 /\ UNCHANGED executor_calls
            ELSE /\ IF opps = <<>>
                    THEN bot_pc' = "ready" /\ at_await' = TRUE /\ todo' = <<>>
                    ELSE bot_pc' = "betting" /\ at_await' = TRUE /\ todo' = opps
                 /\ UNCHANGED callVars
    /\ UNCHANGED <<live_mode, bet_sizes, trackerVars, storeVars, sizerVars, kellyVars, estVars, scanVars, monVars, loopVars, execVars, volVars, ledgerVars>>

\* One iteration of "for opp in top_opps": size_bet, and for an approved bet
\* _execute_paper: log_bet, then the await of alerter.send.
scan_cycle_opp(tie_up) ==
    /\ bot_pc = "betting"
    /\ todo # <<>>
    /\ LET opp    == Head(todo)
           result == size_bet(bankroll, open_exposure, OppEV, opp.kelly, OppConfidence,
                              OppLiquidity, tie_up)
           bet    == [market_id |-> opp.market_id, side |-> opp.recommended_side,
                      market_price |-> OppPrice]
           found  == SelectUnresolvedId(rows, bet.market_id, bet.side)
           placed == bets_this_cycle < TOP_BETS_PER_SCAN /\ result.approved
       IN  /\ sized_with' = IF bets_this_cycle < TOP_BETS_PER_SCAN
                            THEN sized_with \cup {<<bankroll, open_exposure>>}
                            ELSE sized_with
           /\ open_exposure' = IF bets_this_cycle < TOP_BETS_PER_SCAN
                               THEN ExposureAfterSizing(open_exposure, result)
                               ELSE open_exposure
           /\ IF placed /\ found = NoId
              THEN /\ Len(rows) < MaxBotRows
                   /\ rows' = InsertRow(rows, bet)
                   /\ bet_sizes' = Append(bet_sizes, result.bet_size_usd)
              ELSE UNCHANGED <<rows, bet_sizes, estVars, scanVars, monVars, loopVars, execVars, callVars, volVars, ledgerVars>>
           /\ bets_this_cycle' = IF placed THEN bets_this_cycle + 1 ELSE bets_this_cycle
           /\ todo' = IF bets_this_cycle < TOP_BETS_PER_SCAN THEN Tail(todo) ELSE <<>>
           /\ IF todo' = <<>>
              THEN bot_pc' = "ready" /\ at_await' = TRUE
              ELSE bot_pc' = "betting" /\ at_await' = placed
    /\ UNCHANGED <<live_mode, scan_count, bankroll, sizing, clock, ret, raised,
                   storeVars, kellyVars, estVars, scanVars, monVars, loopVars, execVars, callVars, volVars, ledgerVars>>

\* The monitor's check_resolutions finds market_id resolved to outcome and
\* calls tracker.resolve_bet(market_id, outcome).
monitor_resolve(market_id, outcome, t) ==
    /\ bot_pc \in {"ready", "betting"}
    /\ at_await
    /\ SelectUnresolved(rows, market_id) # {}
    /\ t >= clock
    /\ clock' = t
    /\ LET ids == SelectUnresolved(rows, market_id)
       IN  rows' = IF ResolveRaises(rows, ids, outcome)
                   THEN rows
                   ELSE UpdateRows(rows, ids, outcome, DefaultBetSize, t)
    /\ UNCHANGED <<ret, raised, botVars, estVars, storeVars, sizerVars, kellyVars, scanVars, monVars, loopVars, execVars, callVars, volVars, ledgerVars>>

InitBot ==
    /\ InitTracker
    /\ StoreUnused
    /\ KellyUnused
    /\ bankroll \in BotBankrolls
    /\ open_exposure = 0
    /\ sizing = NoSizing
    /\ bot_pc = "off"
    /\ live_mode \in BOOLEAN
    /\ at_await = FALSE
    /\ todo = <<>>
    /\ scan_count = 0
    /\ bets_this_cycle = 0
    /\ bet_sizes = <<>>
    /\ sized_with = {}
    /\ EstUnused
    /\ ScanUnused
    /\ MonUnused
    /\ LoopsUnused
    /\ ExecUnused
    /\ executor_calls = {}
    /\ bot_error = NoError
    /\ VolUnused
    /\ LedgerUnused

NextBot ==
    \/ \E configured \in BOOLEAN : start(configured)
    \/ \E opps \in TopOpps, btc_market \in BOOLEAN : scan_cycle_begin(opps, btc_market)
    \/ \E tie_up \in BOOLEAN : scan_cycle_opp(tie_up)
    \/ \E m \in Markets, o \in Sides, t \in Times : monitor_resolve(m, o, t)

SpecBot == InitBot /\ [][NextBot]_vars

RECURSIVE SumOpen(_, _, _)
\* The total of sizes[i] over the unresolved rows i <= n of rs.
SumOpen(rs, sizes, n) ==
    IF n = 0 THEN 0
    ELSE SumOpen(rs, sizes, n - 1) + (IF rs[n].resolved THEN 0 ELSE sizes[n])

\* C5: at every point of a run of the bot, the total USD size of the approved
\* bets that are open is at most MAX_TOTAL_EXPOSURE (40%) of the bankroll.
C5_OpenBetsWithinExposureCap ==
    SumOpen(rows, bet_sizes, Len(rows)) * 100 <= bankroll * MAX_TOTAL_EXPOSURE

\* C9: within one scan cycle no step after the cycle's start changes bankroll or
\* open exposure (size_bet included), so all size_bet calls of a cycle read
\* the same risk state.
C9_RiskStateFixedInCycle ==
    /\ [](Cardinality(sized_with) <= 1)
    /\ [][bot_pc = "betting" => UNCHANGED <<bankroll, open_exposure, estVars, scanVars, monVars, loopVars, execVars, callVars, volVars, ledgerVars>>]_vars

\* C9 witness: a cycle in which size_bet approved two bets, both sized on the
\* same bankroll and open exposure.
C9_Witness ==
    /\ bets_this_cycle = 2
    /\ sized_with = {<<bankroll, open_exposure>>}
    /\ Len(rows) >= 2

(* C21: in paper mode the trade executor is never invoked: over any sequence
   of scan cycles with live_mode false no method of the executor is called (no
   balance query, no order placement), and every stored bet is a logged row. *)
C21_PaperNeverCallsExecutor ==
    ~live_mode => executor_calls = {} /\ Len(bet_sizes) = Len(rows)

\* C21 witness: a paper-mode bot that has run two scan cycles and logged bets.
C21_Witness ==
    /\ ~live_mode
    /\ scan_count = 2
    /\ Len(rows) >= 2
    /\ executor_calls = {}

(* C22: a missing capability is not fatal: a bot started in live mode with an
   executor that is not configured does not terminate with the configuration
   error but keeps running. *)
C22_UnconfiguredNotFatal ==
    bot_pc = "stopped" => bot_error.exc # "RuntimeError"

(* C23: an error raised while the scan loop processes one market or
   opportunity is isolated to it: the error of the BTC enhancement step does
   not end the cycle or the scan loop. *)
C23_ScanErrorIsolated ==
    (~live_mode /\ bot_error # NoError) => bot_pc \in {"ready", "betting"}

---------------------------------------------------------------------------
(* position_monitor.py: PositionMonitor.start and check_resolutions, on a
   table that holds resolved rows of earlier markets and some open bets.

   mon.pc is "sleep" between polling passes and "pass" inside the loop over
   open_bets.  The fields checked, errors, found and notified count, for the
   current pass, the iterations begun, the exceptions caught by the loop's
   except clause, the bets whose market was found resolved, and the resolution
   messages sent; errors_before counts the exceptions of earlier passes;
   digest_owed
   is a history flag: a resolve_bet call of the monitor has brought the number
   of resolved rows to a multiple of DIGEST_EVERY and no calibration report
   has been sent since. *)

DIGEST_EVERY == 10
MaxPasses    == 2      \* polling passes in a run
MaxOpen      == 2      \* open bets in the table at the start

OldResolved    == {8, 9}     \* rows resolved before the run starts
OpenCandidates ==
    << [market_id |-> "m1", side |-> "YES", market_price |-> 25],
       [market_id |-> "m1", side |-> "NO",  market_price |-> 25],
       [market_id |-> "m2", side |-> "YES", market_price |-> 25],
       [market_id |-> "m2", side |-> "NO",  market_price |-> 0] >>
ApiOutcomes    == {"None", "YES", "NO"}    \* what _check_market_resolution returns

\* The keys of the dicts that get_open_bets returns.
OpenBetKeys ==
    {"market_id", "question", "side", "market_price", "our_prob", "ev", "kelly",
     "confidence", "flagged_at", "end_date"}

RECURSIVE OldRows(_)
\* n bets on an earlier market, logged and resolved one after the other.
OldRows(n) ==
    IF n = 0 THEN <<>>
    ELSE LET logged == InsertRow(OldRows(n - 1),
                                 [market_id |-> "m0", side |-> "YES", market_price |-> 25])
         IN  UpdateRows(logged, {Len(logged)}, "YES", DefaultBetSize, 0)

RECURSIVE LogAll(_, _, _)
\* rs after log_bet of the candidates with an index in picked, in index order.
LogAll(rs, picked, i) ==
    IF i > Len(OpenCandidates) THEN rs
    ELSE LogAll(IF i \in picked THEN InsertRow(rs, OpenCandidates[i]) ELSE rs, picked, i + 1)

RECURSIVE OpenBetsDesc(_, _)
\* get_open_bets: the unresolved rows, latest first (ORDER BY flagged_at DESC).
OpenBetsDesc(rs, n) ==
    IF n = 0 THEN <<>>
    ELSE (IF rs[n].resolved THEN <<>>
          ELSE << [market_id |-> rs[n].market_id, side |-> rs[n].side,
                   market_price |-> rs[n].market_price] >>)
         \o OpenBetsDesc(rs, n - 1)

get_open_bets(rs) == OpenBetsDesc(rs, Len(rs))

\* total_resolved of get_calibration_report
TotalResolved(rs) == Cardinality({i \in DOMAIN rs : rs[i].resolved})

\* Mutant of NextIndex: an exception in one iteration ends the loop.
NextIndex_Abort(idx, n, failed) == IF failed THEN n + 1 ELSE idx + 1

\* The loop goes on to the next open bet, the try/except being inside the loop body.
NextIndex(idx, n, failed) == idx + 1

\* check_resolutions up to its loop
pass_begin ==
    /\ mon.pc = "sleep"
    /\ mon.passes < MaxPasses
    /\ LET open_bets == get_open_bets(rows)
       IN  mon' = [mon EXCEPT
                     !.pc = IF open_bets = <<>> THEN "sleep" ELSE "pass",
                     !.passes = @ + 1,
                     !.open_bets = open_bets, !.idx = 1, !.resolved_count = 0,
                     !.checked = 0, !.errors_before = @ + mon.errors,
                     !.errors = 0, !.found = 0, !.notified = 0, !.digest_sent = FALSE]
    /\ UNCHANGED <<trackerVars, storeVars, sizerVars, kellyVars, botVars, estVars, scanVars, loopVars, execVars, callVars, volVars, ledgerVars>>

\* One iteration of "for bet in open_bets", _check_market_resolution having
\* returned outcome.
check_bet(outcome, t) ==
    /\ mon.pc = "pass"
    /\ mon.idx <= Len(mon.open_bets)
    /\ t >= clock
    /\ LET bet       == mon.open_bets[mon.idx]
           ids       == SelectUnresolved(rows, bet.market_id)
           resolves  == outcome # "None"
           \* tracker.resolve_bet(market_id, outcome) raises
           r_raises  == resolves /\ ResolveRaises(rows, ids, outcome)
           \* bet["entry_price"] raises KeyError
           k_raises  == resolves /\ ~r_raises /\ "entry_price" \notin OpenBetKeys
           raised_   == r_raises \/ k_raises
           rows2     == IF resolves /\ ~r_raises
                        THEN UpdateRows(rows, ids, outcome, DefaultBetSize, t)
                        ELSE rows
           hit       == /\ TotalResolved(rows2) # TotalResolved(rows)
                        /\ TotalResolved(rows2) % DIGEST_EVERY = 0
       IN  /\ rows' = rows2
           /\ clock' = IF resolves THEN t ELSE clock
           /\ mon' = [mon EXCEPT
                        !.idx = NextIndex(mon.idx, Len(mon.open_bets), raised_),
                        !.found = IF resolves THEN @ + 1 ELSE @,
                        !.resolved_count = IF resolves /\ ~r_raises THEN @ + 1 ELSE @,
                        !.errors = IF raised_ THEN @ + 1 ELSE @,
                        !.notified = IF resolves /\ ~raised_ THEN @ + 1 ELSE @,
                        !.checked = @ + 1,
                        !.digest_owed = IF hit THEN TRUE ELSE @]
    /\ UNCHANGED <<ret, raised, storeVars, sizerVars, kellyVars, botVars, estVars, scanVars, loopVars, execVars, callVars, volVars, ledgerVars>>

\* check_resolutions after its loop, and the sleep that follows in start().
pass_end ==
    /\ mon.pc = "pass"
    /\ mon.idx > Len(mon.open_bets)
    /\ LET total  == TotalResolved(rows)
           digest == mon.resolved_count > 0 /\ total > 0 /\ total % DIGEST_EVERY = 0
       IN  mon' = [mon EXCEPT !.pc = "sleep",
                              !.digest_sent = digest,
                              !.digest_owed = IF digest THEN FALSE ELSE @]
    /\ UNCHANGED <<trackerVars, storeVars, sizerVars, kellyVars, botVars, estVars, scanVars, loopVars, execVars, callVars, volVars, ledgerVars>>

InitMonitor ==
    /\ \E n \in OldResolved, picked \in SUBSET (DOMAIN OpenCandidates) :
          /\ Cardinality(picked) <= MaxOpen
          /\ rows = LogAll(OldRows(n), picked, 1)
    /\ clock = 0
    /\ ret = NoId
    /\ raised = FALSE
    /\ mon = [pc |-> "sleep", passes |-> 0, open_bets |-> <<>>, idx |-> 1,
              resolved_count |-> 0, checked |-> 0, errors_before |-> 0, errors |-> 0, found |-> 0, notified |-> 0,
              digest_sent |-> FALSE, digest_owed |-> FALSE]
    /\ StoreUnused
    /\ SizerUnused
    /\ KellyUnused
    /\ BotUnused
    /\ EstUnused
    /\ ScanUnused
    /\ LoopsUnused
    /\ ExecUnused
    /\ CallsUnused
    /\ VolUnused
    /\ LedgerUnused

NextMonitor ==
    \/ pass_begin
    \/ \E outcome \in ApiOutcomes, t \in Times : check_bet(outcome, t)
    \/ pass_end

SpecMonitor == InitMonitor /\ [][NextMonitor]_vars

(* C16: an error raised while the monitor checks one open bet is caught and
   does not abort the loop: the iteration that raised is followed by the next
   open bet of the same pass, a pass that is over has checked every open bet
   it started with, and after a pass the monitor sleeps and is ready to begin
   its next pass. *)
C16_ErrorDoesNotAbortPass ==
    /\ [][mon.pc = "pass" /\ mon'.errors > mon.errors
            => mon'.pc = "pass" /\ mon'.idx = mon.idx + 1 /\ mon'.checked = mon.checked + 1]_vars
    /\ [](mon.pc = "sleep" => mon.checked = Len(mon.open_bets))
    /\ [][mon.pc = "pass" /\ mon'.pc # "pass" => mon'.pc = "sleep"]_vars
    /\ [](mon.pc = "sleep" /\ mon.passes < MaxPasses => ENABLED pass_begin)

\* C16 witness: the first pass had two open bets; its first iteration (the
\* latest row) resolved the bet and raised, its second iteration found the
\* other market unresolved, and the second pass has begun with that bet.
C16_Witness ==
    /\ mon.pc = "pass"
    /\ mon.passes = 2
    /\ mon.checked = 0
    /\ mon.errors_before = 1
    /\ rows[Len(rows)].resolved
    /\ ~rows[Len(rows) - 1].resolved
    /\ Len(mon.open_bets) = 1

(* C17: whenever the monitor finds that the market of an open bet has
   resolved, it calls resolve_bet and then computes the realized P&L and sends
   a resolution notification for that bet: in every pass, as many resolution
   messages have been sent as bets were found resolved. *)
C17_ResolutionNotified == mon.pc = "sleep" => mon.notified = mon.found

(* C18: whenever the resolutions recorded by the monitor bring the tracker's
   total resolved count to a multiple of DIGEST_EVERY, the monitor sends a
   calibration digest: no pass ends with such a digest still owed. *)
C18_DigestOnMultiple == mon.pc = "sleep" => ~mon.digest_owed

---------------------------------------------------------------------------
(* bot.py: main, PolymarketBot.start and shutdown, with the monitor task of
   position_monitor.py beside the scan loop, in paper mode.

   The states are the points where a coroutine is suspended at an await:
     loop.bot      "startup"   start() awaits the startup alert
                   "cycle"     start() awaits scan_cycle()
                   "sleep"     start() awaits asyncio.sleep(SCAN_INTERVAL)
                   "shutdown"  the finally clause awaits shutdown()
                   "done"      start() has returned
     loop.monitor  "none"      no monitor task yet
                   "created"   task created, monitor.start() not yet entered
                   "pass"      awaiting check_resolutions()
                   "sleep"     awaiting asyncio.sleep(poll_interval)
                   "exited"    the while loop of monitor.start() has ended
                   "cancelled" the task has received CancelledError
   The signal handlers run when the event loop has control, that is while the
   coroutines are suspended.  requested records that SIGINT or SIGTERM has
   been handled; scans_after and passes_after count the scan cycles and the
   polling passes started since, up to LoopCap. *)

LoopCap == 2

CountUp(n) == IF n < LoopCap THEN n + 1 ELSE n

loopFrame == <<trackerVars, storeVars, sizerVars, kellyVars, botVars, estVars, scanVars, monVars, execVars,
              callVars, volVars, ledgerVars>>

\* shutdown_handler, called by the event loop on SIGINT and on SIGTERM.  While
\* start() is at the startup alert the loop has control only if the alert is
\* really sent (TelegramAlerter.send returns at once without a token).
signal ==
    /\ loop.bot \in {"startup", "cycle", "sleep", "shutdown"}
    /\ loop.bot = "startup" => loop.telegram
    /\ loop' = [loop EXCEPT !.running = FALSE, !.requested = TRUE]
    /\ UNCHANGED loopFrame

\* start(): the startup alert returns; _running is set, the monitor task is
\* created and the first scan cycle begins.
startup_done ==
    /\ loop.bot = "startup"
    /\ loop' = [loop EXCEPT !.running = TRUE, !.monitor = "created", !.bot = "cycle",
                  !.scans_after = IF loop.requested THEN CountUp(@) ELSE @]
    /\ UNCHANGED loopFrame

\* scan_cycle() returns, or raises and the finally clause of start() runs.
cycle_done(raises) ==
    /\ loop.bot = "cycle"
    /\ IF raises
       THEN loop' = [loop EXCEPT !.bot = "shutdown", !.running = FALSE,
                       !.cancel = loop.monitor \in {"created", "pass", "sleep"},
                       !.monitor_running = FALSE]
       ELSE loop' = [loop EXCEPT !.bot = "sleep"]
    /\ UNCHANGED loopFrame

\* asyncio.sleep(SCAN_INTERVAL) returns: "while self._running", then either the
\* next cycle or monitor_task.cancel() and shutdown() up to its first await.
sleep_done ==
    /\ loop.bot = "sleep"
    /\ IF loop.running
       THEN loop' = [loop EXCEPT !.bot = "cycle",
                       !.scans_after = IF loop.requested THEN CountUp(@) ELSE @]
       ELSE loop' = [loop EXCEPT !.bot = "shutdown", !.running = FALSE,
                       !.cancel = loop.monitor \in {"created", "pass", "sleep"},
                       !.monitor_running = FALSE]
    /\ UNCHANGED loopFrame

\* shutdown() returns and with it start().
shutdown_done ==
    /\ loop.bot = "shutdown"
    /\ loop' = [loop EXCEPT !.bot = "done"]
    /\ UNCHANGED loopFrame

\* monitor.start() is entered: _running = True and the first pass begins.
monitor_start ==
    /\ loop.monitor = "created"
    /\ ~loop.cancel
    /\ loop' = [loop EXCEPT !.monitor = "pass", !.monitor_running = TRUE,
                  !.passes_after = IF loop.requested THEN CountUp(@) ELSE @]
    /\ UNCHANGED loopFrame

\* check_resolutions() returns or raises; the monitor sleeps.
monitor_pass_done ==
    /\ loop.monitor = "pass"
    /\ ~loop.cancel
    /\ loop' = [loop EXCEPT !.monitor = "sleep"]
    /\ UNCHANGED loopFrame

\* asyncio.sleep(poll_interval) returns: "while self._running"
monitor_sleep_done ==
    /\ loop.monitor = "sleep"
    /\ ~loop.cancel
    /\ IF loop.monitor_running
       THEN loop' = [loop EXCEPT !.monitor = "pass",
                       !.passes_after = IF loop.requested THEN CountUp(@) ELSE @]
       ELSE loop' = [loop EXCEPT !.monitor = "exited"]
    /\ UNCHANGED loopFrame

\* The cancelled monitor task is resumed with CancelledError, which neither
\* "except Exception" of position_monitor.py catches.
monitor_cancelled ==
    /\ loop.cancel
    /\ loop.monitor \in {"created", "pass", "sleep"}
    /\ loop' = [loop EXCEPT !.monitor = "cancelled", !.cancel = FALSE]
    /\ UNCHANGED loopFrame

InitLoops ==
    /\ \E telegram \in BOOLEAN :
          loop = [bot |-> "startup", running |-> FALSE, telegram |-> telegram,
                  monitor |-> "none", monitor_running |-> FALSE, cancel |-> FALSE,
                  requested |-> FALSE, scans_after |-> 0, passes_after |-> 0]
    /\ InitTracker
    /\ StoreUnused
    /\ SizerUnused
    /\ KellyUnused
    /\ BotUnused
    /\ EstUnused
    /\ ScanUnused
    /\ MonUnused
    /\ ExecUnused
    /\ CallsUnused
    /\ VolUnused
    /\ LedgerUnused

BotStep ==
    \/ startup_done
    \/ \E raises \in BOOLEAN : cycle_done(raises)
    \/ sleep_done
    \/ shutdown_done

MonitorStep ==
    \/ monitor_start
    \/ monitor_pass_done
    \/ monitor_sleep_done
    \/ monitor_cancelled

NextLoops == signal \/ BotStep \/ MonitorStep

SpecLoops == InitLoops /\ [][NextLoops]_vars

\* The event loop resumes every coroutine whose await has completed, and the
\* sleeps and the HTTP requests (which have timeouts) complete.
SpecLoopsFair == SpecLoops /\ WF_vars(BotStep) /\ WF_vars(MonitorStep)

LoopsStopped == loop.bot = "done" /\ loop.monitor \in {"exited", "cancelled"}

(* C19: after shutdown has been requested (SIGINT or SIGTERM has cleared the
   bot's running flag) both loops stop: eventually start() has returned and
   the monitor task has ended, so that no further scan cycle and no further
   polling pass starts. *)
C19_LoopsStopAfterRequest == loop.requested ~> LoopsStopped

---------------------------------------------------------------------------
(* bot.py: what scan_cycle does with an opportunity that size_bet has approved
   (lines 208-221), through _execute_paper or _execute_live, as an operation on
   a bot in either mode and a tracker table.  exec_io holds the arguments, and
   after the call whether log_bet was called and how the call ended. *)

ExecBankrolls == {500, 10000}

\* The methods of executor.py's PolymarketExecutor.
ExecutorMethods ==
    {"get_balance_usdc", "get_wallet_address", "get_clob_price", "execute_bet",
     "_wait_for_fill", "cancel_order", "get_open_orders", "is_configured"}

\* How "await self.executor.<method>(token_id, size_usd, price)" can end: with
\* an ExecutionResult whose success is true or false, or, the executor having
\* no such method, with AttributeError.
CallOutcomes(method) ==
    IF method \in ExecutorMethods THEN {"success", "failure"} ELSE {"AttributeError"}

\* _execute_paper: log_bet, the alert, return True.
execute_paper(ex) ==
    /\ exec_io' = [ex EXCEPT !.called = TRUE, !.logged = TRUE, !.result = "True"]
    /\ LET bet == [market_id |-> ex.opp.market_id, side |-> ex.side, market_price |-> OppPrice]
       IN  rows' = IF SelectUnresolvedId(rows, bet.market_id, bet.side) = NoId
                   THEN InsertRow(rows, bet) ELSE rows

\* _execute_live: buy_yes or buy_no, and log_bet under "if result.success".
execute_live(ex, outcome) ==
    /\ exec_io' = [ex EXCEPT !.called = TRUE,
                             !.logged = (outcome = "success"),
                             !.result = CASE outcome = "success" -> "True"
                                          [] outcome = "failure" -> "False"
                                          [] OTHER -> outcome]
    /\ LET bet == [market_id |-> ex.opp.market_id, side |-> ex.side, market_price |-> OppPrice]
       IN  rows' = IF outcome = "success" /\ SelectUnresolvedId(rows, bet.market_id, bet.side) = NoId
                   THEN InsertRow(rows, bet) ELSE rows

\* "if self.live_mode: ... _execute_live(...) else: ... _execute_paper(...)"
execute_approved ==
    /\ ~exec_io.called
    /\ IF exec_io.live_mode
       THEN \E outcome \in CallOutcomes(IF exec_io.side = "YES" THEN "buy_yes" ELSE "buy_no") :
               execute_live(exec_io, outcome)
       ELSE execute_paper(exec_io)
    /\ UNCHANGED <<clock, ret, raised, storeVars, sizerVars, kellyVars, botVars, estVars,
                   scanVars, monVars, loopVars, callVars, volVars, ledgerVars>>

InitExecute ==
    /\ \E picked \in SUBSET (DOMAIN OpenCandidates) :
          /\ Cardinality(picked) <= 1
          /\ rows = LogAll(<<>>, picked, 1)
    /\ clock = 0
    /\ ret = NoId
    /\ raised = FALSE
    /\ \E live \in BOOLEAN, opp \in Opportunity, b \in ExecBankrolls, tie_up \in BOOLEAN :
          LET sized == size_bet(b, 0, OppEV, opp.kelly, OppConfidence, OppLiquidity, tie_up)
          IN  /\ sized.approved
              /\ exec_io = [called |-> FALSE, live_mode |-> live, opp |-> opp,
                            side |-> opp.recommended_side, size_usd |-> sized.bet_size_usd,
                            logged |-> FALSE, result |-> "none"]
    /\ StoreUnused
    /\ SizerUnused
    /\ KellyUnused
    /\ BotUnused
    /\ EstUnused
    /\ ScanUnused
    /\ MonUnused
    /\ LoopsUnused
    /\ CallsUnused
    /\ VolUnused
    /\ LedgerUnused

NextExecute == execute_approved

SpecExecute == InitExecute /\ [][NextExecute]_vars

(* C20: every opportunity that the sizer approves in a scan cycle is logged to
   the tracker in that cycle, in paper mode and in live mode alike and whether
   or not its execution succeeded: once the approved opportunity has been
   handed to the mode's execution, log_bet has been called for it. *)
C20_ApprovedIsLogged == exec_io.called => exec_io.logged

---------------------------------------------------------------------------
(* btc_vol_model.py: BTCVolModel.

   Prices are in thousands of dollars, probabilities in 1/EstScale, days are
   whole days, volatilities exact rationals.  The logarithm and the square root
   of d2 are not computed: a call with days > 0 on prices for which the code's
   math.log calls are defined takes for (d2, _norm_cdf(d2)) any row of
   NormTable, d2 in hundredths. *)

VOL_TERM_STRUCTURE ==
    [k \in {7, 14, 30, 60, 90, 180, 365, 730} |->
        CASE k = 7 -> 85 [] k = 14 -> 80 [] k = 30 -> 72 [] k = 60 -> 68
          [] k = 90 -> 65 [] k = 180 -> 60 [] k = 365 -> 55 [] k = 730 -> 50]

REGIME_VOL_ADJUSTMENTS == [cooperation |-> 90, mixed |-> 100, defection |-> 120]

NormTable ==
    { [d2 |-> -300, cdf |-> 13],  [d2 |-> -100, cdf |-> 1587], [d2 |-> 0, cdf |-> 5000],
      [d2 |-> 100, cdf |-> 8413], [d2 |-> 300, cdf |-> 9987] }

VolPrices   == {-50, 0, 50, 70, 100}    \* current and target prices
VolSpots    == {50, 100}                \* what _get_btc_price returns
VolDays     == {-1, 0, 1, 20, 30}
VolRegimes  == {"mixed", "defection"}
VolYesPrices == {5, 50, 95}
VolEndDates == {-2, 1, 30}              \* days from now to end_date
MaxVolWords == 2

\* The words a question is made of, each with the direction keywords of
\* analyze_market that occur in it as substrings.
VolOccurs ==
    [w \in {"above", "below", "recover", "under", "hit"} |->
        CASE w = "above"   -> {"above"}
          [] w = "below"   -> {"below"}
          [] w = "recover" -> {"over"}
          [] w = "under"   -> {"under"}
          [] w = "hit"     -> {}]

AboveWords == {"above", "over", "exceed", "higher than", "more than", ">"}
BelowWords == {"below", "under", "less than", "<"}

\* The price written in the question, with the target that the four patterns
\* and the sanity check 1_000 < target < 10_000_000 extract from it.
NoTarget == 0
ParsedTarget ==
    [t \in {"none", "$70k", "$100,000", "$1k", "$500"} |->
        CASE t = "$70k"     -> 70
          [] t = "$100,000" -> 100
          [] OTHER          -> NoTarget]

VolQuestions ==
    [words : {q \in SUBSET (DOMAIN VolOccurs) : Cardinality(q) <= MaxVolWords},
     price : DOMAIN ParsedTarget]

VolAnyIn(keywords, words) == \E w \in words : VolOccurs[w] \cap keywords # {}

\* _get_vol
get_vol(days, regime) ==
    IF days <= 0 THEN Rat(85, 100)
    ELSE LET keys  == DOMAIN VOL_TERM_STRUCTURE
             first == CHOOSE k \in keys : \A j \in keys : k <= j
             last  == CHOOSE k \in keys : \A j \in keys : k >= j
             base  ==
                 IF days <= first THEN Rat(VOL_TERM_STRUCTURE[first], 100)
                 ELSE IF days >= last THEN Rat(VOL_TERM_STRUCTURE[last], 100)
                 ELSE LET lower == CHOOSE k \in keys :
                                      k <= days /\ \A j \in keys : j <= days => j <= k
                          upper == CHOOSE k \in keys :
                                      k >= days /\ \A j \in keys : j >= days => j >= k
                      IN  IF lower = upper THEN Rat(VOL_TERM_STRUCTURE[lower], 100)
                          ELSE Rat(VOL_TERM_STRUCTURE[lower] * (upper - days)
                                     + VOL_TERM_STRUCTURE[upper] * (days - lower),
                                   100 * (upper - lower))
         IN  Rat(base.num * REGIME_VOL_ADJUSTMENTS[regime], base.den * 100)

\* Mutant of IsAboveTarget: a price equal to the target counts as above.
IsAboveTarget_OrEqual(S, K) == S >= K

\* "1.0 if S > K else 0.0"
IsAboveTarget(S, K) == S > K

Sign(x) == IF x > 0 THEN 1 ELSE IF x < 0 THEN -1 ELSE 0

VolRaised(exc) == [raised |-> exc]

\* max(0.01, min(0.99, p))
ClampProb(p) == Max2(EstScale \div 100, Min2(EstScale - EstScale \div 100, p))

\* price_above_target(target, days_to_expiry) of a model with current price S.
\* math.log(K / S) raises ZeroDivisionError for S = 0 and ValueError for
\* K / S <= 0.
price_above_target(S, K, days, regime, n) ==
    IF days <= 0
    THEN LET prob == IF IsAboveTarget(S, K) THEN EstScale ELSE 0
         IN  [raised |-> "none", probability_above |-> prob,
              probability_below |-> EstScale - prob, implied_vol |-> Zero,
              days_to_expiry |-> 0, current_price |-> S, target_price |-> K,
              log_return_sign |-> 0, z_score |-> 0]
    ELSE IF S = 0 THEN VolRaised("ZeroDivisionError")
    ELSE IF K = 0 \/ Sign(K) # Sign(S) THEN VolRaised("ValueError")
    ELSE [raised |-> "none", probability_above |-> ClampProb(n.cdf),
          probability_below |-> ClampProb(EstScale - n.cdf),
          implied_vol |-> get_vol(days, regime),
          days_to_expiry |-> days, current_price |-> S, target_price |-> K,
          log_return_sign |-> IF S > 0 THEN Sign(K - S) ELSE Sign(S - K),
          z_score |-> n.d2]

\* Mutant of IsAbove: the below keywords are tested first.
IsAbove_BelowFirst(words) == VolAnyIn(AboveWords, words) /\ ~VolAnyIn(BelowWords, words)

\* is_above = any(w in question_lower for w in [...])
IsAbove(words) == VolAnyIn(AboveWords, words)

\* analyze_market(question, yes_price, end_date): None without a target.
analyze_market(S, question, yes_price, end_date, regime, n) ==
    LET days   == Max2(1, end_date)
        target == ParsedTarget[question.price]
    IN  IF target = NoTarget THEN [raised |-> "none", none |-> TRUE]
        ELSE LET is_above == IsAbove(question.words)
                 result   == price_above_target(S, target, days, regime, n)
                 our_prob == IF is_above THEN result.probability_above
                             ELSE result.probability_below
             IN  IF result.raised # "none" THEN result
                 ELSE [raised |-> "none", none |-> FALSE, target |-> target,
                       direction |-> IF is_above THEN "above" ELSE "below",
                       our_probability |-> our_prob,
                       market_probability |-> yes_price,
                       edge |-> our_prob - yes_price * (EstScale \div PriceScale),
                       days_to_expiry |-> days,
                       implied_vol |-> result.implied_vol, z_score |-> result.z_score]

volFrame == <<trackerVars, storeVars, sizerVars, kellyVars, botVars, estVars, scanVars,
              monVars, loopVars, execVars, callVars, ledgerVars>>

price_above_target_call ==
    /\ ~vol_io.called
    /\ vol_io.op = "price_above_target"
    /\ vol_io' = [vol_io EXCEPT !.called = TRUE] @@
                 [result |-> price_above_target(vol_io.current_price, vol_io.target,
                                                vol_io.days, vol_io.regime, vol_io.norm)]
    /\ UNCHANGED volFrame

analyze_market_call ==
    /\ ~vol_io.called
    /\ vol_io.op = "analyze_market"
    /\ vol_io' = [vol_io EXCEPT !.called = TRUE] @@
                 [result |-> analyze_market(vol_io.current_price, vol_io.question,
                                            vol_io.yes_price, vol_io.end_date,
                                            vol_io.regime, vol_io.norm)]
    /\ UNCHANGED volFrame

InitVol ==
    /\ \/ \E S \in VolPrices, K \in VolPrices, d \in VolDays, r \in VolRegimes, n \in NormTable :
             vol_io = [called |-> FALSE, op |-> "price_above_target", current_price |-> S,
                       target |-> K, days |-> d, regime |-> r, norm |-> n]
       \/ \E S \in VolSpots, q \in VolQuestions, y \in VolYesPrices, e \in VolEndDates,
             n \in NormTable :
             vol_io = [called |-> FALSE, op |-> "analyze_market", current_price |-> S,
                       question |-> q, yes_price |-> y, end_date |-> e, regime |-> "mixed",
                       norm |-> n]
    /\ InitTracker
    /\ StoreUnused
    /\ SizerUnused
    /\ KellyUnused
    /\ BotUnused
    /\ EstUnused
    /\ ScanUnused
    /\ MonUnused
    /\ LoopsUnused
    /\ ExecUnused
    /\ CallsUnused
    /\ LedgerUnused

NextVol == price_above_target_call \/ analyze_market_call

SpecVol == InitVol /\ [][NextVol]_vars

(* C24: the numeric functions never raise on out-of-domain inputs and return
   a defined value instead; for price_above_target: a call with a zero or
   negative current or target price, or with zero days to expiry, returns. *)
C24_NumericNeverRaises ==
    (vol_io.called /\ vol_io.op = "price_above_target") => vol_io.result.raised = "none"

(* C26: analyze_market uses probability_above and reports direction "above"
   exactly when the question contains an above keyword, also when a below
   keyword is present too; in every other case, a question with neither kind
   of keyword included, it uses probability_below and reports "below"; edge is
   that probability minus yes_price. *)
C26_DirectionAboveFirst ==
    (vol_io.called /\ vol_io.op = "analyze_market" /\ ~vol_io.result.none) =>
        LET has_above == \E w \in vol_io.question.words : VolOccurs[w] \cap AboveWords # {}
            priced    == price_above_target(vol_io.current_price,
                                            ParsedTarget[vol_io.question.price],
                                            Max2(1, vol_io.end_date), vol_io.regime,
                                            vol_io.norm)
            r         == vol_io.result
        IN  /\ r.direction = (IF has_above THEN "above" ELSE "below")
            /\ r.our_probability = (IF has_above THEN priced.probability_above
                                    ELSE priced.probability_below)
            /\ r.edge = r.our_probability - vol_io.yes_price * (EstScale \div PriceScale)

\* C26 witness: a question with an above and a below keyword, priced with
\* different probabilities above and below, is reported "above".
C26_Witness ==
    /\ vol_io.called
    /\ vol_io.op = "analyze_market"
    /\ vol_io.question.words = {"above", "below"}
    /\ ~vol_io.result.none
    /\ vol_io.result.direction = "above"
    /\ vol_io.result.our_probability = 8413

(* C27: price_above_target with days to expiry <= 0 returns the deterministic
   indicator: probability_above exactly 1.0 if current > target, else 0.0,
   probability_below = 1 - probability_above, vol 0 and z-score 0; with
   days > 0 it returns probability_above and probability_below each clamped
   on its own to [0.01, 0.99]. *)
C27_ExpiredIndicatorElseClamped ==
    (vol_io.called /\ vol_io.op = "price_above_target" /\ vol_io.result.raised = "none") =>
        LET r == vol_io.result
        IN  IF vol_io.days <= 0
            THEN /\ r.probability_above =
                        (IF vol_io.current_price > vol_io.target THEN EstScale ELSE 0)
                 /\ r.probability_below = EstScale - r.probability_above
                 /\ r.implied_vol = Zero
                 /\ r.z_score = 0
            ELSE /\ r.probability_above = Max2(100, Min2(9900, vol_io.norm.cdf))
                 /\ r.probability_below = Max2(100, Min2(9900, EstScale - vol_io.norm.cdf))

\* C27 witness: an expired call with current price equal to the target
\* returns 0.0 above and 1.0 below.
C27_Witness ==
    /\ vol_io.called
    /\ vol_io.op = "price_above_target"
    /\ vol_io.days = 0
    /\ vol_io.current_price = vol_io.target
    /\ vol_io.current_price > 0
    /\ vol_io.result.probability_above = 0
    /\ vol_io.result.probability_below = EstScale

---------------------------------------------------------------------------
(* The paper_bets table with the columns the calibration report reads, filled
   by the two callers of log_bet (scan_cycle of bot.py through size_bet and
   _execute_paper; run_scan of main.py), resolved by the monitor, and read by
   paper_tracker.py's get_calibration_report.

   rows holds the columns of the tracker section; row_meta[i] holds, for
   rows[i], our_probability (the estimated probability of YES, in percent),
   kelly (percent), confidence, and via, the caller that logged the row. *)

READY_MIN_RESOLVED == 50
MaxNewRows         == 2      \* rows logged in a run, beside those of BaseTables
LedgerBankroll     == 100000

\* Winning and losing resolved bets the table starts with.
BaseTables == { <<0, 0>>, <<13, 36>>, <<12, 37>> }
BaseBet    == [market_id |-> "m0", side |-> "YES", market_price |-> 25]
BaseMeta   == [our_probability |-> 70, kelly |-> 25, confidence |-> "HIGH", via |-> "base"]

\* The opportunities that the scanner hands to the two callers.
LedgerOpps ==
    { [market_id |-> "m1", side |-> "YES", market_price |-> 25, our_probability |-> 70,
       confidence |-> "HIGH"],
      [market_id |-> "m1", side |-> "NO",  market_price |-> 25, our_probability |-> 30,
       confidence |-> "MEDIUM"],
      [market_id |-> "m2", side |-> "YES", market_price |-> 50, our_probability |-> 25,
       confidence |-> "LOW"],
      [market_id |-> "m2", side |-> "NO",  market_price |-> 50, our_probability |-> 35,
       confidence |-> "HIGH"] }

\* The table after w bets logged and won, then l bets logged and lost, each
\* resolved before the next was logged: the rows that InsertRow and UpdateRows
\* leave.
BaseRows(w, l) ==
    [i \in 1..(w + l) |->
        LET outcome == IF i <= w THEN "YES" ELSE "NO"
        IN  [id           |-> i,
             market_id    |-> BaseBet.market_id,
             side         |-> BaseBet.side,
             market_price |-> BaseBet.market_price,
             resolved     |-> TRUE,
             outcome      |-> outcome,
             profit_loss  |-> Pnl(BaseBet.side, outcome, BaseBet.market_price, DefaultBetSize),
             resolved_at  |-> 0]]

RECURSIVE Gcd(_, _)
Gcd(a, b) == IF b = 0 THEN a ELSE Gcd(b, a % b)

\* The same value in lowest terms.
RatNorm(r) ==
    LET g == Gcd(IF r.num < 0 THEN 0 - r.num ELSE r.num, r.den)
    IN  IF r.num < 0 THEN Rat(0 - ((0 - r.num) \div g), r.den \div g)
        ELSE Rat(r.num \div g, r.den \div g)

RatAdd(a, b) == RatNorm(Rat(a.num * b.den + b.num * a.den, a.den * b.den))

\* Mutant of SelectResolvedRows: the query has no "WHERE resolved=1".
SelectAllRows(rs) == DOMAIN rs

\* SELECT ... FROM paper_bets WHERE resolved=1
SelectResolvedRows(rs) == {i \in DOMAIN rs : rs[i].resolved}

RECURSIVE SumPnl(_, _, _, _)
\* sum(r[5] for r in rows): profit_loss in cents over the selected rows from
\* index lo to index hi
SumPnl(rs, sel, lo, hi) ==
    IF lo > hi THEN Zero
    ELSE IF lo = hi THEN (IF lo \in sel THEN RatNorm(rs[lo].profit_loss) ELSE Zero)
    ELSE LET mid == (lo + hi) \div 2
         IN  RatAdd(SumPnl(rs, sel, lo, mid), SumPnl(rs, sel, mid + 1, hi))

RECURSIVE SumKelly(_, _, _, _)
\* sum(r[4] for r in rows)
SumKelly(meta, sel, lo, hi) ==
    IF lo > hi THEN 0
    ELSE IF lo = hi THEN (IF lo \in sel THEN meta[lo].kelly ELSE 0)
    ELSE LET mid == (lo + hi) \div 2
         IN  SumKelly(meta, sel, lo, mid) + SumKelly(meta, sel, mid + 1, hi)

\* round(our_prob * 10), Python's round to the nearest integer, a half to the
\* even one; our_prob in percent, the bucket in tenths.
Bucket(our_prob) ==
    LET q == our_prob \div 10
        r == our_prob % 10
    IN  IF r > 5 \/ (r = 5 /\ q % 2 = 1) THEN q + 1 ELSE q

\* r[2] == r[1]: outcome == side
RowWon(r) == r.outcome = r.side

\* Mutant of MainLogs: run_scan logs every opportunity.
MainLogs_All(confidence) == TRUE

\* run_scan: "if opp.confidence not in ['HIGH', 'MEDIUM']: continue"
MainLogs(confidence) == confidence \in {"HIGH", "MEDIUM"}

\* get_calibration_report; money in dollars.
get_calibration_report(rs, meta) ==
    LET sel == SelectResolvedRows(rs)
    IN  IF sel = {} THEN [error |-> TRUE]
        ELSE LET total     == Cardinality(sel)
                 wins      == Cardinality({i \in sel : RowWon(rs[i])})
                 cents     == SumPnl(rs, sel, 1, Len(rs))
                 total_pnl == RatNorm(Rat(cents.num, cents.den * 100))
                 buckets   == {Bucket(meta[i].our_probability) : i \in sel}
                 high_conf == {i \in sel : meta[i].confidence = "HIGH"}
             IN  [error |-> FALSE,
                  total_resolved |-> total,
                  win_rate |-> Rat(wins, total),
                  total_pnl_usd |-> total_pnl,
                  roi_pct |-> RatNorm(Rat(total_pnl.num * 100, total_pnl.den * total * 100)),
                  avg_kelly |-> Rat(SumKelly(meta, sel, 1, Len(rs)), total * 100),
                  high_confidence_wr |->
                      IF high_conf = {} THEN Zero
                      ELSE Rat(Cardinality({i \in high_conf : RowWon(rs[i])}),
                               Cardinality(high_conf)),
                  calibration_by_bucket |->
                      [b \in buckets |->
                          LET in_b   == {i \in sel : Bucket(meta[i].our_probability) = b}
                              n      == Cardinality(in_b)
                              b_wins == Cardinality({i \in in_b : RowWon(rs[i])})
                              diff   == 10 * b_wins - b * n
                          IN  [n |-> n,
                               actual_frequency |-> Rat(b_wins, n),
                               calibration_error |->
                                   Rat(IF diff < 0 THEN 0 - diff ELSE diff, 10 * n)]],
                  ready_for_live |-> (total >= READY_MIN_RESOLVED /\ total_pnl.num > 0)]

ledgerFrame == <<ret, raised, storeVars, sizerVars, kellyVars, botVars, estVars, scanVars,
                 monVars, loopVars, execVars, callVars, volVars>>

NewRows == Cardinality({i \in DOMAIN row_meta : row_meta[i].via # "base"})

\* tracker.log_bet(bet) by the caller via, with the table's other columns.
ledger_log(opp, via) ==
    /\ IF SelectUnresolvedId(rows, opp.market_id, opp.side) # NoId
       THEN UNCHANGED <<rows, row_meta>>
       ELSE /\ NewRows < MaxNewRows
            /\ rows' = InsertRow(rows, opp)
            /\ row_meta' = Append(row_meta,
                                  [our_probability |-> opp.our_probability, kelly |-> 25,
                                   confidence |-> opp.confidence, via |-> via])
    /\ UNCHANGED <<clock, report>>
    /\ UNCHANGED ledgerFrame

\* scan_cycle of a paper-mode bot: size_bet, and _execute_paper if approved.
bot_logs(opp, tie_up) ==
    /\ ~report.called
    /\ size_bet(LedgerBankroll, 0, OppEV, 25, opp.confidence, OppLiquidity, tie_up).approved
    /\ ledger_log(opp, "bot")

\* run_scan of main.py, step 4.
main_logs(opp) ==
    /\ ~report.called
    /\ MainLogs(opp.confidence)
    /\ ledger_log(opp, "main")

\* The monitor's tracker.resolve_bet(market_id, outcome)
ledger_resolve(market_id, outcome, t) ==
    /\ ~report.called
    /\ t >= clock
    /\ LET ids == SelectUnresolved(rows, market_id)
       IN  /\ ids # {}
           /\ ~ResolveRaises(rows, ids, outcome)
           /\ rows' = UpdateRows(rows, ids, outcome, DefaultBetSize, t)
    /\ clock' = t
    /\ UNCHANGED <<row_meta, report>>
    /\ UNCHANGED ledgerFrame

report_call ==
    /\ ~report.called
    /\ report' = [called |-> TRUE, value |-> get_calibration_report(rows, row_meta)]
    /\ UNCHANGED <<rows, clock, row_meta>>
    /\ UNCHANGED ledgerFrame

InitLedger ==
    /\ \E base \in BaseTables :
          /\ rows = BaseRows(base[1], base[2])
          /\ row_meta = [i \in 1..(base[1] + base[2]) |-> BaseMeta]
    /\ clock = 0
    /\ ret = NoId
    /\ raised = FALSE
    /\ report = NoReport
    /\ StoreUnused
    /\ SizerUnused
    /\ KellyUnused
    /\ BotUnused
    /\ EstUnused
    /\ ScanUnused
    /\ MonUnused
    /\ LoopsUnused
    /\ ExecUnused
    /\ CallsUnused
    /\ VolUnused

NextLedger ==
    \/ \E opp \in LedgerOpps, tie_up \in BOOLEAN : bot_logs(opp, tie_up)
    \/ \E opp \in LedgerOpps : main_logs(opp)
    \/ \E m \in Markets, o \in Sides, t \in Times : ledger_resolve(m, o, t)
    \/ report_call

SpecLedger == InitLedger /\ [][NextLedger]_vars

Resolved == {i \in DOMAIN rows : rows[i].resolved}

(* C25: after any sequence of log_bet and resolve_bet calls that leaves at
   least one resolved row, get_calibration_report is computed over exactly the
   resolved rows: total_resolved is their count, win_rate the number of rows
   with side = outcome over that count, total_pnl the sum of their
   profit_loss, roi total_pnl / (total * 100) * 100, and ready_for_live is
   true exactly when total >= 50 and total_pnl > 0. *)
C25_ReportOverResolvedRows ==
    (report.called /\ Resolved # {}) =>
        LET v     == report.value
            total == Cardinality(Resolved)
            cents == SumPnl(rows, Resolved, 1, Len(rows))
        IN  /\ ~v.error
            /\ v.total_resolved = total
            /\ RatEq(v.win_rate,
                     Rat(Cardinality({i \in Resolved : rows[i].side = rows[i].outcome}), total))
            /\ RatEq(v.total_pnl_usd, RatNorm(Rat(cents.num, cents.den * 100)))
            /\ RatEq(v.roi_pct, RatNorm(Rat(cents.num, cents.den * 100 * total)))
            /\ v.ready_for_live = (total >= 50 /\ cents.num > 0)

\* C25 witness: a report over 50 resolved rows with a positive total, in a
\* table that also holds an open bet; it says ready_for_live.
C25_Witness ==
    /\ report.called
    /\ Cardinality(Resolved) = 50
    /\ Len(rows) = 51
    /\ report.value.ready_for_live

(* C28: in the calibration report the actual frequency of a probability
   bucket is the fraction of that bucket's resolved bets whose market resolved
   YES, whichever side was bet. *)
C28_ActualFrequencyIsYesRate ==
    (report.called /\ Resolved # {}) =>
        \A b \in DOMAIN report.value.calibration_by_bucket :
            LET in_b == {i \in Resolved : Bucket(row_meta[i].our_probability) = b}
                yes  == {i \in in_b : rows[i].outcome = "YES"}
            IN  RatEq(report.value.calibration_by_bucket[b].actual_frequency,
                      Rat(Cardinality(yes), Cardinality(in_b)))

(* C29: no bet with confidence label LOW is ever stored in the tracker by the
   pipeline: every row inserted by log_bet, from a bot scan cycle or from a
   main.py scan, has confidence HIGH or MEDIUM. *)
C29_NoLowConfidenceRow ==
    \A i \in DOMAIN row_meta : row_meta[i].confidence \in {"HIGH", "MEDIUM"}

\* C29 witness: the table holds a row logged by the bot and a row logged by
\* main.py, the LOW opportunity having been offered to both.
C29_Witness ==
    /\ \E i \in DOMAIN row_meta : row_meta[i].via = "bot"
    /\ \E i \in DOMAIN row_meta : row_meta[i].via = "main" /\ row_meta[i].confidence = "MEDIUM"
    /\ \E opp \in LedgerOpps : opp.confidence = "LOW"

(* C30: over any sequence of scan cycles and monitor resolutions the tracker
   holds at most one row in total, resolved or not, per (market_id, side). *)
C30_OneRowPerMarketSide ==
    \A i, j \in DOMAIN rows :
        (rows[i].market_id = rows[j].market_id /\ rows[i].side = rows[j].side) => i = j

===========================================================================
